---- MODULE Spec2Model ----
(***************************************************************************)
(* Model of the benchmark harnesses of local-blockchain-setup:             *)
(*   - the cooperative harness (runTasksWithConcurrency and its main),     *)
(*   - the two worker-pool harnesses (runWorkerBenchmark /                 *)
(*     runAccountBalanceBenchmark) with their worker retry loops.          *)
(* One step of the model is one run-to-completion piece of JavaScript: the *)
(* code between two suspension points (a promise callback, the resumption  *)
(* of an await, a timer).                                                  *)
(***************************************************************************)
EXTENDS Integers, Sequences, FiniteSets, TLC

(* ------------------------------ bounds -------------------------------- *)
\* Largest task list handed to runTasksWithConcurrency (tasks.length).
MaxTasks == 3
\* Largest concurrency limit / worker count tried.
MaxLimit == 2
\* MAX_ATTEMPTS of the worker retry loop: 100 in workerBenchmark.js and 1000
\* in workerAccountBalance.js; the loop is the same for every value.
MAX_ATTEMPTS == 2

\* Largest number of entries of CONCURRENCY_LEVELS, and the longest task
\* list that is run at more than one level.
MaxLevels == 2
LevelTasks == 1

\* Largest number of signers (credentials) tried.
MaxSigners == 3
\* The attempts the retry loop is followed for when every attempt fails with a
\* retryable error (MAX_ATTEMPTS is 100 and 1000 in the workers).
BackoffAttempts == 24

(* ------------------------- program constants -------------------------- *)
\* TOTAL_TRANSACTIONS of the worker-pool scripts (1000 there), scaled down.
TOTAL_TRANSACTIONS == 2
\* ethers.parseEther(DEPOSIT_AMOUNT_ETH), in units of 10^15 wei.
depositAmountWei == 10

(* ------------------------------ errors -------------------------------- *)
\* A thrown value, as far as the code looks at it: its code and its message.
\* A message is a sequence of words; NoMessage stands for a message field
\* that is undefined. Errors made by ethers (makeError) always carry a code
\* and a message; the last shape is a thrown value that is no Error object
\* (it has neither field).
NoMessage == <<"<undefined>">>
NoError == [code |-> "none", message |-> NoMessage]
Errors ==
    { [code |-> "NONCE_EXPIRED",      message |-> <<"Nonce", "too", "low">>],
      [code |-> "TIMEOUT",            message |-> <<"timeout">>],
      [code |-> "INSUFFICIENT_FUNDS", message |-> <<"insufficient", "funds">>],
      [code |-> "CALL_EXCEPTION",
       message |-> <<"transaction", "execution", "reverted">>],
      [code |-> "undefined",          message |-> NoMessage] }

\* tx.wait() of ethers v6 (the API the scripts use: ethers.JsonRpcProvider,
\* receipt.hash) throws a CALL_EXCEPTION error when the receipt's status is 0.
\* A transaction that reverted was mined without effect.
RevertError == [code |-> "CALL_EXCEPTION",
                message |-> <<"transaction", "execution", "reverted">>]
MayHaveTakenEffect(error, mined) == mined => error # RevertError

\* error.message.split('\n')[0] throws a TypeError when message is undefined.
SplitThrows(error) == error.message = NoMessage

\* String.prototype.toLowerCase, word by word.
LowerWord(w) ==
    CASE w = "Nonce" -> "nonce"
      [] w = "Timeout" -> "timeout"
      [] w = "Network" -> "network"
      [] OTHER -> w
toLowerCase(msg) == [k \in 1 .. Len(msg) |-> LowerWord(msg[k])]

\* String.prototype.includes
includes(msg, pat) ==
    \E k \in 1 .. (Len(msg) - Len(pat) + 1) :
        SubSeq(msg, k, k + Len(pat) - 1) = pat

\* const errorMessage = error.message ? error.message.toLowerCase() : '';
errorMessageOf(error) ==
    IF error.message = NoMessage \/ error.message = <<>>
    THEN <<>>
    ELSE toLowerCase(error.message)

\* isNonceError without the test of error.code.
isNonceErrorNoCode(error) ==
    \/ includes(errorMessageOf(error), <<"nonce", "too", "low">>)
    \/ includes(errorMessageOf(error), <<"nonce", "has", "already", "been", "used">>)
    \/ includes(errorMessageOf(error), <<"replacement", "transaction", "underpriced">>)

\* The classifier of workerBenchmark.js (the Counter worker).
isNonceError(error) ==
    \/ error.code = "NONCE_EXPIRED"
    \/ includes(errorMessageOf(error), <<"nonce", "too", "low">>)
    \/ includes(errorMessageOf(error), <<"nonce", "has", "already", "been", "used">>)
    \/ includes(errorMessageOf(error), <<"replacement", "transaction", "underpriced">>)

\* isNetworkError without the 'timeout' pattern.
isNetworkErrorNoTimeout(error) ==
    \/ includes(errorMessageOf(error), <<"failed", "to", "detect", "network">>)
    \/ includes(errorMessageOf(error), <<"could", "not", "detect", "network">>)
    \/ includes(errorMessageOf(error), <<"network", "error">>)

isNetworkError(error) ==
    \/ includes(errorMessageOf(error), <<"failed", "to", "detect", "network">>)
    \/ includes(errorMessageOf(error), <<"could", "not", "detect", "network">>)
    \/ includes(errorMessageOf(error), <<"timeout">>)
    \/ includes(errorMessageOf(error), <<"network", "error">>)

\* The classifier of workerAccountBalance.js (the deposit worker).
isNonceErrorAB(error) ==
    \/ error.code = "NONCE_EXPIRED"
    \/ includes(errorMessageOf(error), <<"nonce", "too", "low">>)
    \/ includes(errorMessageOf(error), <<"nonce", "has", "already", "been", "used">>)
    \/ includes(errorMessageOf(error), <<"replacement", "transaction", "underpriced">>)

isNetworkErrorAB(error) ==
    \/ includes(errorMessageOf(error), <<"failed", "to", "detect", "network">>)
    \/ includes(errorMessageOf(error), <<"could", "not", "detect", "network">>)
    \/ includes(errorMessageOf(error), <<"timeout">>)
    \/ includes(errorMessageOf(error), <<"network", "error">>)

\* More errors of the ledger client, for the classifiers: each pattern, a code
\* alone, a code without a message, and messages close to a pattern.
ErrorSamples ==
    Errors \cup
    { [code |-> "UNKNOWN_ERROR",
       message |-> <<"nonce", "has", "already", "been", "used">>],
      [code |-> "REPLACEMENT_UNDERPRICED",
       message |-> <<"replacement", "transaction", "underpriced">>],
      [code |-> "NETWORK_ERROR",
       message |-> <<"failed", "to", "detect", "network">>],
      [code |-> "NETWORK_ERROR",
       message |-> <<"could", "not", "detect", "network">>],
      [code |-> "SERVER_ERROR",       message |-> <<"Network", "error">>],
      [code |-> "TIMEOUT",            message |-> <<"request", "Timeout">>],
      [code |-> "NONCE_EXPIRED",      message |-> <<"bad", "data">>],
      [code |-> "NONCE_EXPIRED",      message |-> NoMessage],
      [code |-> "NETWORK_ERROR",      message |-> <<"network", "changed">>],
      [code |-> "UNKNOWN_ERROR",      message |-> <<"nonce", "low">>] }

VARIABLES
    harness,        \* which script runs: "coop", "counter" or "deposit"
    totalTasks,     \* tasks.length / TOTAL_TRANSACTIONS
    ledger,         \* Counter.count, or the AccountBalance contract balance
    initialState,   \* initialCount / initialContractEthBalance read by main
    mainPc,         \* position of main()
    setupPc,        \* position of main() before the first level
    signerCount,    \* signersToUse.length / HARDHAT_PRIVATE_KEYS.length
    assigned,       \* the signer index given to each task made so far
    deployed,       \* a contract instance has been deployed
    levelsLeft,     \* entries of CONCURRENCY_LEVELS / WORKER_COUNTS still to run
    benchmarkResults, \* the entries stored for the levels that have ended
    crashed,        \* the process died on an unhandled rejection
    report,         \* the benchmarkResults entry of the run
    \* runTasksWithConcurrency
    limit, results, activeCount, taskIndex, errors,
    taskState, taskError, resolveCalls, unhandled,
    settledAs,      \* history: how each task's promise settled
    \* the worker pool and the worker retry loops
    workerCount,    \* maxThreads of the Piscina pool
    wpc,            \* position of each worker task
    attempt,        \* attempt counter of each worker task
    result,         \* result variable of each worker task
    traced,         \* whether the history variable outcomes is kept
    outcomes,       \* history: how each finished attempt of a task ended
    delays,         \* the backoff delays each worker task has taken
    tally           \* the counters main computes from the results

coopVars == <<limit, results, activeCount, taskIndex, errors,
              taskState, taskError, resolveCalls, unhandled, settledAs>>
poolVars == <<workerCount, wpc, attempt, result, traced, outcomes, delays, tally>>
mainVars == <<harness, totalTasks, ledger, initialState, mainPc, crashed, report>>
loopVars == <<levelsLeft, benchmarkResults>>
setupVars == <<setupPc, signerCount, assigned, deployed>>

\* The AccountBalance contract (contracts/AccountBalance.sol) on its own.
VARIABLES
    balances,        \* mapping(address => uint256) balances
    owner,           \* address owner
    contractBalance, \* address(this).balance
    withdrawn,       \* a withdrawAll has succeeded
    lastCall         \* the last transaction sent to the contract

contractVars == <<balances, owner, contractBalance, withdrawn, lastCall>>
vars == <<mainVars, setupVars, loopVars, coopVars, poolVars, contractVars>>

\* A transaction to the contract and how it ended.
Call(fn, sender, value, reverted) ==
    [fn |-> fn, sender |-> sender, value |-> value, reverted |-> reverted]

\* The harness scripts take the contract as a whole (ledger).
NoContract ==
    /\ balances = <<>>
    /\ owner = "none"
    /\ contractBalance = 0
    /\ withdrawn = FALSE
    /\ lastCall = Call("none", "none", 0, FALSE)

NoReport == [stored |-> FALSE]

Tasks == 0 .. (totalTasks - 1)

(* ----------------------- the start of main() -------------------------- *)
\* A signer index that is capped to the concurrency of the run.
signerIndexCapped(i) ==
    LET cap == IF harness = "coop" THEN limit ELSE workerCount
        n   == IF cap >= 1 /\ cap < signerCount THEN cap ELSE signerCount
    IN  i % n

\* signersToUse[i % signersToUse.length] / privateKeysToUse[i %
\* availableSignersCount]: the signer of task i.
signerIndex(i) == i % signerCount

\* Startup without the check of the credentials.
StartupNoCheck ==
    /\ setupPc = "start"
    /\ setupPc' = "checked"
    /\ UNCHANGED <<signerCount, assigned, deployed>>
    /\ UNCHANGED <<contractVars, mainVars, loopVars, coopVars, poolVars>>

\* The check of the credentials: `signersToUse.length < 1` /
\* `availableSignersCount === 0` ends the process (process.exit(1)).
Startup ==
    /\ setupPc = "start"
    /\ setupPc' = (IF signerCount < 1 THEN "fatal" ELSE "checked")
    /\ UNCHANGED <<signerCount, assigned, deployed>>
    /\ UNCHANGED <<contractVars, mainVars, loopVars, coopVars, poolVars>>

\* Step 1 of the first level: the contract is deployed and its initial
\* state is read.
Deploy ==
    /\ setupPc = "checked"
    /\ setupPc' = "deployed"
    /\ deployed' = TRUE
    /\ ledger' = 0
    /\ initialState' = 0
    /\ UNCHANGED <<signerCount, assigned>>
    /\ UNCHANGED <<harness, totalTasks, mainPc, crashed, report>>
    /\ UNCHANGED <<contractVars, loopVars, coopVars, poolVars>>

\* One iteration of `for (let i = 0; i < TOTAL_TRANSACTIONS; i++)`: task i
\* is made with its signer. In the worker-pool mains the iteration also gives
\* the task to the pool, `taskPromises.push(piscina.run(workerData))`, where
\* it is queued: the pool gives no task to a thread before main() yields.
PrepareTask ==
    /\ setupPc = "deployed"
    /\ Len(assigned) < totalTasks
    /\ assigned' = Append(assigned, signerIndex(Len(assigned)))
    /\ UNCHANGED <<setupPc, signerCount, deployed>>
    /\ UNCHANGED <<contractVars, mainVars, loopVars, coopVars, poolVars>>

\* The loop that makes the tasks is over.
TasksPrepared ==
    /\ setupPc = "deployed"
    /\ Len(assigned) = totalTasks
    /\ setupPc' = "ready"
    /\ UNCHANGED <<signerCount, assigned, deployed>>
    /\ UNCHANGED <<contractVars, mainVars, loopVars, coopVars, poolVars>>

(* ------------------- runTasksWithConcurrency ------------------------- *)
\* LaunchLoop with the limit test off by one (<= for <).
RECURSIVE LaunchLoopOffByOne(_, _, _)
LaunchLoopOffByOne(ac, ti, ts) ==
    IF ac <= limit /\ ti < totalTasks
    THEN LaunchLoopOffByOne(ac + 1, ti + 1, [ts EXCEPT ![ti] = "running"])
    ELSE [activeCount |-> ac, taskIndex |-> ti, taskState |-> ts]

\* LaunchLoop that takes the tasks from the end of the list.
RECURSIVE LaunchLoopFromEnd(_, _, _)
LaunchLoopFromEnd(ac, ti, ts) ==
    IF ac < limit /\ ti < totalTasks
    THEN LaunchLoopFromEnd(ac + 1, ti + 1,
                           [ts EXCEPT ![totalTasks - 1 - ti] = "running"])
    ELSE [activeCount |-> ac, taskIndex |-> ti, taskState |-> ts]

\* LaunchLoop with `if` for `while`: at most one task is launched per call.
LaunchLoopOnce(ac, ti, ts) ==
    IF ac < limit /\ ti < totalTasks
    THEN [activeCount |-> ac + 1, taskIndex |-> ti + 1,
          taskState |-> [ts EXCEPT ![ti] = "running"]]
    ELSE [activeCount |-> ac, taskIndex |-> ti, taskState |-> ts]

\* The while loop of runNext: launch tasks while the limit allows.
RECURSIVE LaunchLoop(_, _, _)
LaunchLoop(ac, ti, ts) ==
    IF ac < limit /\ ti < totalTasks
    THEN LaunchLoop(ac + 1, ti + 1, [ts EXCEPT ![ti] = "running"])
    ELSE [activeCount |-> ac, taskIndex |-> ti, taskState |-> ts]

\* runNext whose base case looks at the successes only ("results array is
\* full").
runNextResultsFull(res, errs, ac, ts) ==
    IF Len(res) = totalTasks
    THEN /\ resolveCalls' = resolveCalls + 1
         /\ activeCount' = ac
         /\ taskState' = ts
         /\ UNCHANGED taskIndex
    ELSE LET l == LaunchLoop(ac, taskIndex, ts) IN
         /\ activeCount' = l.activeCount
         /\ taskIndex' = l.taskIndex
         /\ taskState' = l.taskState
         /\ UNCHANGED resolveCalls

\* runNext whose base case is "every task has been started".
runNextAllStarted(res, errs, ac, ts) ==
    IF taskIndex = totalTasks
    THEN /\ resolveCalls' = resolveCalls + 1
         /\ activeCount' = ac
         /\ taskState' = ts
         /\ UNCHANGED taskIndex
    ELSE LET l == LaunchLoop(ac, taskIndex, ts) IN
         /\ activeCount' = l.activeCount
         /\ taskIndex' = l.taskIndex
         /\ taskState' = l.taskState
         /\ UNCHANGED resolveCalls

\* runNext(), called with the counters as the caller left them.
runNext(res, errs, ac, ts) ==
    IF Len(res) + errs = totalTasks
    THEN /\ resolveCalls' = resolveCalls + 1
         /\ activeCount' = ac
         /\ taskState' = ts
         /\ UNCHANGED taskIndex
    ELSE LET l == LaunchLoop(ac, taskIndex, ts) IN
         /\ activeCount' = l.activeCount
         /\ taskIndex' = l.taskIndex
         /\ taskState' = l.taskState
         /\ UNCHANGED resolveCalls

\* The promise returned by runTasksWithConcurrency is resolved by the first
\* call of resolve; later calls have no effect on it.
resolved == resolveCalls > 0

\* The state of that promise; the executor takes no reject function.
runPromise == IF resolved THEN "fulfilled" ELSE "pending"

\* main calls runTasksWithConcurrency: the executor runs runNext() once.
CallRun ==
    /\ harness = "coop" /\ ~crashed
    /\ UNCHANGED <<contractVars, setupVars, loopVars>>
    /\ UNCHANGED poolVars
    /\ setupPc = "ready"
    /\ mainPc = "prepared"
    /\ runNext(results, errors, activeCount, taskState)
    /\ mainPc' = "awaitRun"
    /\ UNCHANGED <<harness, totalTasks, ledger, initialState, crashed, report>>
    /\ UNCHANGED <<limit, results, errors, taskError, unhandled, settledAs>>

\* task(): increment() and wait() end; the task's promise settles.
TaskFulfil(i) ==
    /\ harness = "coop" /\ ~crashed
    /\ UNCHANGED <<contractVars, setupVars, loopVars>>
    /\ UNCHANGED poolVars
    /\ taskState[i] = "running"
    /\ taskState' = [taskState EXCEPT ![i] = "fulfilled"]
    /\ settledAs' = [settledAs EXCEPT ![i] = "fulfilled"]
    /\ ledger' = ledger + 1
    /\ UNCHANGED <<harness, totalTasks, initialState, mainPc, crashed, report>>
    /\ UNCHANGED <<limit, results, activeCount, taskIndex, errors,
                   taskError, resolveCalls, unhandled>>

\* The task's promise rejects with e; a transaction whose confirmation wait
\* failed may still have been mined.
TaskReject(i, e, mined) ==
    /\ harness = "coop" /\ ~crashed
    /\ UNCHANGED <<contractVars, setupVars, loopVars>>
    /\ UNCHANGED poolVars
    /\ taskState[i] = "running"
    /\ MayHaveTakenEffect(e, mined)
    /\ taskState' = [taskState EXCEPT ![i] = "rejected"]
    /\ settledAs' = [settledAs EXCEPT ![i] = "rejected"]
    /\ taskError' = [taskError EXCEPT ![i] = e]
    /\ ledger' = IF mined THEN ledger + 1 ELSE ledger
    /\ UNCHANGED <<harness, totalTasks, initialState, mainPc, crashed, report>>
    /\ UNCHANGED <<limit, results, activeCount, taskIndex, errors,
                   resolveCalls, unhandled>>

\* ThenCallback whose push is lost.
ThenCallbackLosesPush(i) ==
    /\ harness = "coop" /\ ~crashed
    /\ UNCHANGED <<contractVars, setupVars, loopVars>>
    /\ UNCHANGED poolVars
    /\ taskState[i] = "fulfilled"
    /\ results' = results
    /\ taskState' = [taskState EXCEPT ![i] = "counted"]
    /\ UNCHANGED mainVars
    /\ UNCHANGED <<limit, activeCount, taskIndex, errors, taskError,
                   resolveCalls, unhandled, settledAs>>

\* .then(result => results.push(true))
ThenCallback(i) ==
    /\ harness = "coop" /\ ~crashed
    /\ UNCHANGED <<contractVars, setupVars, loopVars>>
    /\ UNCHANGED poolVars
    /\ taskState[i] = "fulfilled"
    /\ results' = Append(results, TRUE)
    /\ taskState' = [taskState EXCEPT ![i] = "counted"]
    /\ UNCHANGED mainVars
    /\ UNCHANGED <<limit, activeCount, taskIndex, errors, taskError,
                   resolveCalls, unhandled, settledAs>>

\* CatchCallback that stores a result (results.push) for the failed task.
CatchCallbackPushesResult(i) ==
    /\ harness = "coop" /\ ~crashed
    /\ UNCHANGED <<contractVars, setupVars, loopVars>>
    /\ UNCHANGED poolVars
    /\ taskState[i] = "rejected"
    /\ results' = Append(results, TRUE)
    /\ taskState' = [taskState EXCEPT ![i] =
           IF SplitThrows(taskError[i]) THEN "countedThrew" ELSE "counted"]
    /\ taskError' = [taskError EXCEPT ![i] = NoError]
    /\ UNCHANGED mainVars
    /\ UNCHANGED <<limit, errors, activeCount, taskIndex,
                   resolveCalls, unhandled, settledAs>>

\* .catch(error => { errors++; console.error(... error.message.split ...) })
CatchCallback(i) ==
    /\ harness = "coop" /\ ~crashed
    /\ UNCHANGED <<contractVars, setupVars, loopVars>>
    /\ UNCHANGED poolVars
    /\ taskState[i] = "rejected"
    /\ errors' = errors + 1
    /\ taskState' = [taskState EXCEPT ![i] =
           IF SplitThrows(taskError[i]) THEN "countedThrew" ELSE "counted"]
    /\ taskError' = [taskError EXCEPT ![i] = NoError]
    /\ UNCHANGED mainVars
    /\ UNCHANGED <<limit, results, activeCount, taskIndex,
                   resolveCalls, unhandled, settledAs>>

\* .finally(() => { activeCount--; ...; runNext(); })
\* When the catch handler threw, the promise finally returns is rejected and
\* nothing handles it.
FinallyCallback(i) ==
    /\ harness = "coop" /\ ~crashed
    /\ UNCHANGED <<contractVars, setupVars, loopVars>>
    /\ UNCHANGED poolVars
    /\ taskState[i] \in {"counted", "countedThrew"}
    /\ runNext(results, errors, activeCount - 1,
               [taskState EXCEPT ![i] = "done"])
    /\ unhandled' = (unhandled \/ taskState[i] = "countedThrew")
    /\ UNCHANGED mainVars
    /\ UNCHANGED <<limit, results, errors, taskError, settledAs>>

\* No promise callback is waiting to run.
MicrotasksDrained ==
    \A i \in Tasks :
        taskState[i] \notin {"fulfilled", "rejected", "counted", "countedThrew"}

\* An unhandled rejection ends the process (the default of Node >= 15); under
\* --unhandled-rejections=warn, or an older Node, it does not.
Crash ==
    /\ harness = "coop" /\ ~crashed
    /\ UNCHANGED <<contractVars, setupVars, loopVars>>
    /\ UNCHANGED poolVars
    /\ unhandled
    /\ MicrotasksDrained
    /\ mainPc \in {"awaitRun", "awaitFinal"}
    /\ ~(mainPc = "awaitRun" /\ resolved)
    /\ crashed' = TRUE
    /\ UNCHANGED <<harness, totalTasks, ledger, initialState, mainPc, report>>
    /\ UNCHANGED coopVars

\* main resumes after `await runTasksWithConcurrency(...)` and asks for the
\* final count.
MainResume ==
    /\ harness = "coop" /\ ~crashed
    /\ UNCHANGED <<contractVars, setupVars, loopVars>>
    /\ UNCHANGED poolVars
    /\ mainPc = "awaitRun"
    /\ resolved
    /\ mainPc' = "awaitFinal"
    /\ UNCHANGED <<harness, totalTasks, ledger, initialState, crashed, report>>
    /\ UNCHANGED coopVars

\* expectedCount that takes every task for a success.
expectedCountAllTasks ==
    initialState +
        totalTasks * (IF harness = "deposit" THEN depositAmountWei ELSE 1)

\* expectedCount = initialCount + BigInt(successfulTxCount) /
\* BigInt(totalSuccessfulIncrements), or expectedContractEthBalance =
\* initialContractEthBalance + totalAmountDepositedWei.
expectedCount ==
    initialState +
        (CASE harness = "coop" -> Len(results)
           [] harness = "deposit" -> tally.amount
           [] OTHER -> tally.successful)

\* MainVerify that ends the process when the final count is not the expected
\* one.
MainVerifyAbortsOnMismatch ==
    /\ harness = "coop" /\ ~crashed
    /\ UNCHANGED poolVars
    /\ mainPc = "awaitFinal"
    /\ MicrotasksDrained
    /\ IF ledger = expectedCount
       THEN /\ report' = [stored |-> TRUE,
                          finalCount |-> ledger,
                          verified |-> TRUE,
                          successfulTx |-> Len(results),
                          failedTx |-> totalTasks - Len(results)]
            /\ benchmarkResults' = Append(benchmarkResults, report')
            /\ mainPc' = "done"
            /\ UNCHANGED crashed
       ELSE /\ crashed' = TRUE
            /\ mainPc' = "fatal"
            /\ UNCHANGED <<report, benchmarkResults>>
    /\ UNCHANGED <<harness, totalTasks, ledger, initialState, levelsLeft>>
    /\ UNCHANGED <<contractVars, setupVars>>
    /\ UNCHANGED coopVars

\* main gets finalCount, verifies and stores the run's entry.
MainVerify ==
    /\ harness = "coop" /\ ~crashed
    /\ UNCHANGED poolVars
    /\ mainPc = "awaitFinal"
    /\ MicrotasksDrained
    /\ LET successfulTxCount == Len(results)
       IN report' = [stored |-> TRUE,
                     finalCount |-> ledger,
                     verified |-> (ledger = expectedCount),
                     successfulTx |-> successfulTxCount,
                     failedTx |-> totalTasks - successfulTxCount]
    /\ benchmarkResults' = Append(benchmarkResults, report')
    /\ UNCHANGED <<contractVars, setupVars, levelsLeft>>
    /\ mainPc' = "done"
    /\ UNCHANGED <<harness, totalTasks, ledger, initialState, crashed>>
    /\ UNCHANGED coopVars

\* NextLevel with an error counter that lives on from run to run.
NextLevelKeepsErrors ==
    /\ harness = "coop" /\ ~crashed
    /\ UNCHANGED poolVars
    /\ mainPc = "done"
    /\ levelsLeft > 0
    /\ levelsLeft' = levelsLeft - 1
    /\ limit' \in 1 .. MaxLimit
    /\ ledger' = 0
    /\ initialState' = 0
    /\ report' = NoReport
    /\ mainPc' = "prepared"
    /\ results' = <<>>
    /\ activeCount' = 0
    /\ taskIndex' = 0
    /\ errors' = errors
    /\ resolveCalls' = 0
    /\ taskState' = [i \in Tasks |-> "unstarted"]
    /\ taskError' = [i \in Tasks |-> NoError]
    /\ settledAs' = [i \in Tasks |-> "pending"]
    /\ unhandled' = FALSE
    /\ UNCHANGED <<harness, totalTasks, crashed, benchmarkResults>>
    /\ UNCHANGED <<contractVars, setupVars>>

\* The next iteration of `for (const concurrency of CONCURRENCY_LEVELS)`: a
\* fresh Counter is deployed, its count is read, the tasks are made anew and
\* the next call of runTasksWithConcurrency will have its own locals.
NextLevel ==
    /\ harness = "coop" /\ ~crashed
    /\ UNCHANGED poolVars
    /\ mainPc = "done"
    /\ levelsLeft > 0
    /\ levelsLeft' = levelsLeft - 1
    /\ limit' \in 1 .. MaxLimit
    /\ ledger' = 0
    /\ initialState' = 0
    /\ report' = NoReport
    /\ mainPc' = "prepared"
    /\ results' = <<>>
    /\ activeCount' = 0
    /\ taskIndex' = 0
    /\ errors' = 0
    /\ resolveCalls' = 0
    /\ taskState' = [i \in Tasks |-> "unstarted"]
    /\ taskError' = [i \in Tasks |-> NoError]
    /\ settledAs' = [i \in Tasks |-> "pending"]
    /\ unhandled' = FALSE
    /\ UNCHANGED <<harness, totalTasks, crashed, benchmarkResults>>
    /\ UNCHANGED <<contractVars, setupVars>>

\* The loop over the levels is over: the final report (console.table of
\* benchmarkResults) is printed.
Summary ==
    /\ ~crashed
    /\ mainPc = "done"
    /\ levelsLeft = 0
    /\ mainPc' = "summary"
    /\ UNCHANGED <<harness, totalTasks, ledger, initialState, crashed, report>>
    /\ UNCHANGED <<contractVars, setupVars, loopVars, coopVars, poolVars>>

(* --------------------- the worker retry loop -------------------------- *)
PoolHarness == harness \in {"counter", "deposit"}

\* What one confirmed operation adds to the ledger: 1 to Counter.count, the
\* deposit to the AccountBalance contract balance.
Effect == IF harness = "deposit" THEN depositAmountWei ELSE 1

\* Number.prototype.toString / BigInt.prototype.toString: decimal digits.
RECURSIVE toString(_)
toString(n) ==
    IF n < 10 THEN <<n>> ELSE Append(toString(n \div 10), n % 10)

\* BigInt that reads the last digit only.
BigIntLastDigit(str) ==
    IF Len(str) = 0 THEN 0 ELSE str[Len(str)]

\* BigInt(string) of a decimal string.
RECURSIVE BigInt(_)
BigInt(str) ==
    IF Len(str) = 0 THEN 0
    ELSE 10 * BigInt(SubSeq(str, 1, Len(str) - 1)) + str[Len(str)]

\* The result objects of the worker; only workerAccountBalance.js has the
\* amountDeposited field.
WorkerResult(success, error, amount, i) ==
    IF harness = "deposit"
    THEN [success |-> success, error |-> error, txIndex |-> i,
          amountDeposited |-> amount]
    ELSE [success |-> success, error |-> error, txIndex |-> i]

DefaultResult(i) ==
    WorkerResult(FALSE, <<"Max", "attempts", "reached">>, toString(0), i)
SuccessResult(i) ==
    WorkerResult(TRUE, <<>>, toString(depositAmountWei), i)
RevertResult(i) ==
    WorkerResult(FALSE, <<"Transaction", "reverted", "with", "status", "0">>,
                 toString(0), i)
FailureResult(i, error) ==
    WorkerResult(FALSE, error.message, toString(0), i)

\* Executing that leaves out the tasks in their backoff.
ExecutingNoBackoff(i) == wpc[i] \in {"submitting", "waiting"}

\* A worker thread is executing task i.
Executing(i) == wpc[i] \in {"submitting", "waiting", "backoff"}

\* RETRY_DELAY_MS: 1000 ms in workerBenchmark.js, 2000 ms in
\* workerAccountBalance.js.
RETRY_DELAY_MS == IF harness = "deposit" THEN 2000 ELSE 1000

\* Math.pow(2, attempt - 1)
RECURSIVE Pow2(_)
Pow2(n) == IF n <= 0 THEN 1 ELSE 2 * Pow2(n - 1)

\* setTimeout(resolve, base * factor), as the delay the timer takes. Node sets
\* a delay above 2^31 - 1 ms to 1 ms (TimeoutOverflowWarning). The product is
\* formed only when it is within that maximum.
setTimeout(base, factor) ==
    IF factor > 2147483647 \div base THEN 1 ELSE base * factor

\* const delay = RETRY_DELAY_MS * Math.pow(2, attempt - 1);
\* await new Promise(resolve => setTimeout(resolve, delay));
backoffDelay(k) == setTimeout(RETRY_DELAY_MS, Pow2(k - 1))

\* LoopHead whose loop ends one attempt early.
LoopHeadOneShort(i) ==
    IF attempt[i] + 1 < MAX_ATTEMPTS
    THEN /\ attempt' = [attempt EXCEPT ![i] = attempt[i] + 1]
         /\ wpc' = [wpc EXCEPT ![i] = "submitting"]
    ELSE /\ wpc' = [wpc EXCEPT ![i] = "returned"]
         /\ UNCHANGED attempt

\* LoopHead without `attempt++`.
LoopHeadNoIncrement(i) ==
    IF attempt[i] < MAX_ATTEMPTS
    THEN /\ wpc' = [wpc EXCEPT ![i] = "submitting"]
         /\ UNCHANGED attempt
    ELSE /\ wpc' = [wpc EXCEPT ![i] = "returned"]
         /\ UNCHANGED attempt

\* The head of `while (attempt < MAX_ATTEMPTS)`: the next attempt is counted
\* and its transaction is sent, or the loop ends and result is returned.
LoopHead(i) ==
    IF attempt[i] < MAX_ATTEMPTS
    THEN /\ attempt' = [attempt EXCEPT ![i] = attempt[i] + 1]
         /\ wpc' = [wpc EXCEPT ![i] = "submitting"]
    ELSE /\ wpc' = [wpc EXCEPT ![i] = "returned"]
         /\ UNCHANGED attempt

\* Retryable without `attempt < MAX_ATTEMPTS`.
RetryableNoBound(error, att) ==
    IF harness = "deposit"
    THEN isNonceErrorAB(error) \/ isNetworkErrorAB(error)
    ELSE isNonceError(error) \/ isNetworkError(error)

\* The worker is retrying after this error of this attempt.
Retryable(error, att) ==
    /\ IF harness = "deposit"
       THEN isNonceErrorAB(error) \/ isNetworkErrorAB(error)
       ELSE isNonceError(error) \/ isNetworkError(error)
    /\ att < MAX_ATTEMPTS

\* History entry: how an attempt ended ("submitError", "waitError", "status1"
\* or "status0") and the error it raised, if any.
Outcome(kind, error) == [kind |-> kind, error |-> error]
Record(i, o) ==
    IF traced THEN [outcomes EXCEPT ![i] = Append(@, o)] ELSE outcomes

\* The catch block of the retry loop, entered with error.
CatchBlock(i, error) ==
    /\ UNCHANGED attempt
    /\ IF SplitThrows(error)
       THEN \* console.warn / console.error of error.message.split throws
            /\ wpc' = [wpc EXCEPT ![i] = "threw"]
            /\ UNCHANGED <<result, delays>>
       ELSE IF Retryable(error, attempt[i])
       THEN /\ result' = [result EXCEPT ![i] = FailureResult(i, error)]
            /\ delays' = [delays EXCEPT ![i] =
                   Append(@, backoffDelay(attempt[i]))]
            /\ wpc' = [wpc EXCEPT ![i] = "backoff"]
       ELSE /\ result' = [result EXCEPT ![i] = FailureResult(i, error)]
            /\ wpc' = [wpc EXCEPT ![i] = "returned"]
            /\ UNCHANGED delays

\* The pool gives the oldest queued task to a free thread; the worker sets
\* up, enters the loop and sends the first transaction.
WorkerStart(i) ==
    /\ PoolHarness /\ ~crashed
    /\ UNCHANGED <<contractVars, setupVars, loopVars>>
    /\ UNCHANGED coopVars
    /\ mainPc # "prepared"
    /\ wpc[i] = "queued"
    /\ \A j \in Tasks : j < i => wpc[j] # "queued"
    /\ Cardinality({j \in Tasks : Executing(j)}) < workerCount
    /\ LoopHead(i)
    /\ UNCHANGED <<workerCount, result, traced, outcomes, delays, tally>>
    /\ UNCHANGED mainVars

\* SubmitOk that waits while another task is in its backoff.
SubmitOkWaitsForBackoff(i) ==
    /\ PoolHarness /\ ~crashed
    /\ UNCHANGED <<contractVars, setupVars, loopVars>>
    /\ UNCHANGED coopVars
    /\ wpc[i] = "submitting"
    /\ \A j \in Tasks : wpc[j] # "backoff"
    /\ wpc' = [wpc EXCEPT ![i] = "waiting"]
    /\ UNCHANGED <<workerCount, attempt, result, traced, outcomes, delays, tally>>
    /\ UNCHANGED mainVars

\* `await contract.increment()` / `deposit()` returns the sent transaction.
SubmitOk(i) ==
    /\ PoolHarness /\ ~crashed
    /\ UNCHANGED <<contractVars, setupVars, loopVars>>
    /\ UNCHANGED coopVars
    /\ wpc[i] = "submitting"
    /\ wpc' = [wpc EXCEPT ![i] = "waiting"]
    /\ UNCHANGED <<workerCount, attempt, result, traced, outcomes, delays, tally>>
    /\ UNCHANGED mainVars

\* `await contract.increment()` / `deposit()` throws: nothing was sent.
SubmitThrows(i, error) ==
    /\ PoolHarness /\ ~crashed
    /\ UNCHANGED <<contractVars, setupVars, loopVars>>
    /\ UNCHANGED coopVars
    /\ wpc[i] = "submitting"
    /\ outcomes' = Record(i, Outcome("submitError", error))
    /\ CatchBlock(i, error)
    /\ UNCHANGED <<workerCount, traced, tally>>
    /\ UNCHANGED mainVars

\* WaitSuccess without the break: the loop goes on after a confirmation.
WaitSuccessNoBreak(i) ==
    /\ PoolHarness /\ ~crashed
    /\ UNCHANGED <<contractVars, setupVars, loopVars>>
    /\ UNCHANGED coopVars
    /\ wpc[i] = "waiting"
    /\ ledger' = ledger + Effect
    /\ result' = [result EXCEPT ![i] = SuccessResult(i)]
    /\ LoopHead(i)
    /\ outcomes' = Record(i, Outcome("status1", NoError))
    /\ UNCHANGED <<workerCount, traced, delays, tally>>
    /\ UNCHANGED <<harness, totalTasks, initialState, mainPc, crashed, report>>

\* `await tx.wait()` returns a receipt with status 1: the operation took
\* effect; the loop is left by break and result is returned.
WaitSuccess(i) ==
    /\ PoolHarness /\ ~crashed
    /\ UNCHANGED <<contractVars, setupVars, loopVars>>
    /\ UNCHANGED coopVars
    /\ wpc[i] = "waiting"
    /\ ledger' = ledger + Effect
    /\ result' = [result EXCEPT ![i] = SuccessResult(i)]
    /\ wpc' = [wpc EXCEPT ![i] = "returned"]
    /\ outcomes' = Record(i, Outcome("status1", NoError))
    /\ UNCHANGED <<workerCount, attempt, traced, delays, tally>>
    /\ UNCHANGED <<harness, totalTasks, initialState, mainPc, crashed, report>>

\* WaitReverted without the break: the loop goes on after a revert.
WaitRevertedNoBreak(i) ==
    /\ PoolHarness /\ ~crashed
    /\ UNCHANGED <<contractVars, setupVars, loopVars>>
    /\ UNCHANGED coopVars
    /\ wpc[i] = "waiting"
    /\ result' = [result EXCEPT ![i] = RevertResult(i)]
    /\ LoopHead(i)
    /\ outcomes' = Record(i, Outcome("status0", NoError))
    /\ UNCHANGED <<workerCount, traced, delays, tally>>
    /\ UNCHANGED mainVars

\* `await tx.wait()` returns a receipt with status 0 (reverted).
WaitReverted(i) ==
    /\ PoolHarness /\ ~crashed
    /\ UNCHANGED <<contractVars, setupVars, loopVars>>
    /\ UNCHANGED coopVars
    /\ wpc[i] = "waiting"
    /\ result' = [result EXCEPT ![i] = RevertResult(i)]
    /\ wpc' = [wpc EXCEPT ![i] = "returned"]
    /\ outcomes' = Record(i, Outcome("status0", NoError))
    /\ UNCHANGED <<workerCount, attempt, traced, delays, tally>>
    /\ UNCHANGED mainVars

\* `await tx.wait()` throws; the transaction may have been mined all the same.
WaitThrows(i, error, mined) ==
    /\ PoolHarness /\ ~crashed
    /\ UNCHANGED <<contractVars, setupVars, loopVars>>
    /\ UNCHANGED coopVars
    /\ wpc[i] = "waiting"
    /\ MayHaveTakenEffect(error, mined)
    /\ ledger' = IF mined THEN ledger + Effect ELSE ledger
    /\ outcomes' = Record(i, Outcome("waitError", error))
    /\ CatchBlock(i, error)
    /\ UNCHANGED <<workerCount, traced, tally>>
    /\ UNCHANGED <<harness, totalTasks, initialState, mainPc, crashed, report>>

\* The backoff timer fires: back to the head of the loop.
BackoffDone(i) ==
    /\ PoolHarness /\ ~crashed
    /\ UNCHANGED <<contractVars, setupVars, loopVars>>
    /\ UNCHANGED coopVars
    /\ wpc[i] = "backoff"
    /\ LoopHead(i)
    /\ UNCHANGED <<workerCount, result, traced, outcomes, delays, tally>>
    /\ UNCHANGED mainVars

\* One more iteration of the retry loop that fails: the backoff timer fires,
\* `attempt++`, the transaction is not sent (contract.increment() / deposit()
\* throws a retryable error) and the catch block starts the next backoff.
RetryIteration(i, error) ==
    /\ PoolHarness /\ ~crashed
    /\ UNCHANGED <<contractVars, setupVars, loopVars>>
    /\ UNCHANGED coopVars
    /\ wpc[i] = "backoff"
    /\ attempt[i] + 1 < BackoffAttempts
    /\ Retryable(error, 1)
    /\ ~SplitThrows(error)
    /\ attempt' = [attempt EXCEPT ![i] = @ + 1]
    /\ result' = [result EXCEPT ![i] = FailureResult(i, error)]
    /\ delays' = [delays EXCEPT ![i] = Append(@, backoffDelay(attempt[i] + 1))]
    /\ UNCHANGED <<workerCount, wpc, traced, outcomes, tally>>
    /\ UNCHANGED mainVars

(* ---------------------- the worker-pool main -------------------------- *)
NoTally == [done |-> FALSE]

\* res && typeof res.success === 'boolean'
HasBooleanSuccess(res) ==
    /\ "success" \in DOMAIN res
    /\ res.success \in BOOLEAN

\* Count without the inner else branch: a reported failure is not counted.
RECURSIVE CountDropsFailures(_, _, _)
CountDropsFailures(rs, k, acc) ==
    IF k > Len(rs) THEN acc
    ELSE LET res == rs[k] IN
         CountDropsFailures(rs, k + 1,
            IF HasBooleanSuccess(res)
            THEN IF res.success
                 THEN [acc EXCEPT
                         !.successful = @ + 1,
                         !.amount = @ + (IF harness = "deposit"
                                         THEN BigInt(res.amountDeposited)
                                         ELSE 0)]
                 ELSE acc
            ELSE [acc EXCEPT !.failed = @ + 1])

\* results.forEach(res => ...) of step 5, from the k-th result on.
RECURSIVE Count(_, _, _)
Count(rs, k, acc) ==
    IF k > Len(rs) THEN acc
    ELSE LET res == rs[k] IN
         Count(rs, k + 1,
            IF HasBooleanSuccess(res)
            THEN IF res.success
                 THEN [acc EXCEPT
                         !.successful = @ + 1,
                         !.amount = @ + (IF harness = "deposit"
                                         THEN BigInt(res.amountDeposited)
                                         ELSE 0)]
                 ELSE [acc EXCEPT !.failed = @ + 1]
            ELSE [acc EXCEPT !.failed = @ + 1])

\* After the for loop of step 3, which has handed every task to the pool
\* (PrepareTask): `const startTime = performance.now()`, and main awaits
\* Promise.all(taskPromises); the pool starts to give the tasks to its threads.
SubmitAll ==
    /\ PoolHarness /\ ~crashed
    /\ UNCHANGED <<contractVars, setupVars, loopVars>>
    /\ UNCHANGED coopVars
    /\ setupPc = "ready"
    /\ mainPc = "prepared"
    /\ mainPc' = "awaitAll"
    /\ UNCHANGED <<harness, totalTasks, ledger, initialState, crashed, report>>
    /\ UNCHANGED poolVars

\* Promise.all resolves with the results in task order; main awaits
\* piscina.destroy().
AllResolved ==
    /\ PoolHarness /\ ~crashed
    /\ UNCHANGED <<contractVars, setupVars, loopVars>>
    /\ UNCHANGED coopVars
    /\ mainPc = "awaitAll"
    /\ \A i \in Tasks : wpc[i] = "returned"
    /\ mainPc' = "awaitDestroy"
    /\ UNCHANGED <<harness, totalTasks, ledger, initialState, crashed, report>>
    /\ UNCHANGED poolVars

\* A worker task rejected: Promise.all rejects, main throws and the catch of
\* main() ends the process.
AllRejected ==
    /\ PoolHarness /\ ~crashed
    /\ UNCHANGED <<contractVars, setupVars, loopVars>>
    /\ UNCHANGED coopVars
    /\ mainPc = "awaitAll"
    /\ \E i \in Tasks : wpc[i] = "threw"
    /\ mainPc' = "fatal"
    /\ crashed' = TRUE
    /\ UNCHANGED <<harness, totalTasks, ledger, initialState, report>>
    /\ UNCHANGED poolVars

\* Step 5: the results are counted; main asks for the final ledger state.
ProcessResults ==
    /\ PoolHarness /\ ~crashed
    /\ UNCHANGED <<contractVars, setupVars, loopVars>>
    /\ UNCHANGED coopVars
    /\ mainPc = "awaitDestroy"
    /\ LET rs == [k \in 1 .. totalTasks |-> result[k - 1]]
           t == Count(rs, 1, [successful |-> 0, failed |-> 0, amount |-> 0])
       IN tally' = [done |-> TRUE, successful |-> t.successful,
                    failed |-> t.failed, amount |-> t.amount]
    /\ mainPc' = "awaitFinal"
    /\ UNCHANGED <<harness, totalTasks, ledger, initialState, crashed, report>>
    /\ UNCHANGED <<workerCount, wpc, attempt, result, traced, outcomes, delays>>

\* The final state arrives; main verifies and stores the run's entry.
PoolVerify ==
    /\ PoolHarness /\ ~crashed
    /\ UNCHANGED coopVars
    /\ mainPc = "awaitFinal"
    /\ report' = [stored |-> TRUE,
                  finalCount |-> ledger,
                  verified |-> (ledger = expectedCount),
                  successfulTx |-> tally.successful,
                  failedTx |-> tally.failed]
    /\ benchmarkResults' = Append(benchmarkResults, report')
    /\ UNCHANGED <<contractVars, setupVars, levelsLeft>>
    /\ mainPc' = "done"
    /\ UNCHANGED <<harness, totalTasks, ledger, initialState, crashed>>
    /\ UNCHANGED poolVars

InitPoolOf(n, tr) ==
    /\ NoContract
    /\ harness \in {"counter", "deposit"}
    /\ traced = tr
    /\ totalTasks = n
    /\ workerCount \in 1 .. MaxLimit
    /\ ledger = 0
    /\ initialState = 0
    /\ mainPc = "prepared"
    /\ crashed = FALSE
    /\ report = NoReport
    \* WORKER_COUNTS has one entry
    /\ levelsLeft = 0
    /\ benchmarkResults = <<>>
    /\ wpc = [i \in 0 .. (n - 1) |-> "queued"]
    /\ attempt = [i \in 0 .. (n - 1) |-> 0]
    /\ result = [i \in 0 .. (n - 1) |-> DefaultResult(i)]
    /\ outcomes = [i \in 0 .. (n - 1) |-> <<>>]
    /\ delays = [i \in 0 .. (n - 1) |-> <<>>]
    /\ tally = NoTally
    \* runTasksWithConcurrency is not part of these scripts
    /\ limit = 0
    /\ results = <<>>
    /\ activeCount = 0
    /\ taskIndex = 0
    /\ errors = 0
    /\ taskState = <<>>
    /\ taskError = <<>>
    /\ resolveCalls = 0
    /\ unhandled = FALSE
    /\ settledAs = <<>>

\* main() has made the tasks of the first level, with one signer.
SetupDone ==
    /\ setupPc = "ready"
    /\ signerCount = 1
    /\ assigned = [k \in 1 .. totalTasks |-> signerIndex(k - 1)]
    /\ deployed = TRUE

\* main() begins, with signers or without.
AtStart(signers) ==
    /\ setupPc = "start"
    /\ signerCount \in signers
    /\ assigned = <<>>
    /\ deployed = FALSE

InitPool == InitPoolOf(TOTAL_TRANSACTIONS, FALSE) /\ SetupDone
InitWorker == InitPoolOf(1, TRUE) /\ SetupDone

InitCoopRun ==
    /\ NoContract
    /\ harness = "coop"
    /\ totalTasks \in 0 .. MaxTasks
    /\ limit \in -1 .. MaxLimit
    /\ levelsLeft \in (IF totalTasks <= LevelTasks
                       THEN 0 .. (MaxLevels - 1) ELSE {0})
    /\ benchmarkResults = <<>>
    /\ ledger = 0
    /\ initialState = 0
    /\ mainPc = "prepared"
    /\ crashed = FALSE
    /\ report = NoReport
    /\ workerCount = 0
    /\ traced = FALSE
    /\ wpc = <<>>
    /\ attempt = <<>>
    /\ result = <<>>
    /\ outcomes = <<>>
    /\ delays = <<>>
    /\ tally = NoTally
    /\ results = <<>>
    /\ activeCount = 0
    /\ taskIndex = 0
    /\ errors = 0
    /\ taskState = [i \in 0 .. (totalTasks - 1) |-> "unstarted"]
    /\ taskError = [i \in 0 .. (totalTasks - 1) |-> NoError]
    /\ resolveCalls = 0
    /\ unhandled = FALSE
    /\ settledAs = [i \in 0 .. (totalTasks - 1) |-> "pending"]

InitCoop == InitCoopRun /\ SetupDone

\* The scripts from the beginning of main().
Init ==
    /\ InitCoopRun \/ InitPoolOf(TOTAL_TRANSACTIONS, FALSE)
    /\ AtStart({0, 1})

\* The start of main() alone, for every number of signers.
InitSetup ==
    /\ InitCoopRun \/ InitPoolOf(TOTAL_TRANSACTIONS, FALSE)
    /\ AtStart(0 .. MaxSigners)

NextCoop ==
    \/ CallRun
    \/ \E i \in Tasks : TaskFulfil(i)
    \/ \E i \in Tasks, e \in Errors, mined \in BOOLEAN : TaskReject(i, e, mined)
    \/ \E i \in Tasks : ThenCallback(i)
    \/ \E i \in Tasks : CatchCallback(i)
    \/ \E i \in Tasks : FinallyCallback(i)
    \/ Crash
    \/ MainResume
    \/ MainVerify
    \/ NextLevel
    \/ Summary

NextPool ==
    \/ SubmitAll
    \/ \E i \in Tasks : WorkerStart(i)
    \/ \E i \in Tasks : SubmitOk(i)
    \/ \E i \in Tasks, e \in Errors : SubmitThrows(i, e)
    \/ \E i \in Tasks : WaitSuccess(i)
    \/ \E i \in Tasks : WaitReverted(i)
    \/ \E i \in Tasks, e \in Errors, mined \in BOOLEAN : WaitThrows(i, e, mined)
    \/ \E i \in Tasks : BackoffDone(i)
    \/ AllResolved
    \/ AllRejected
    \/ ProcessResults
    \/ PoolVerify
    \/ Summary

(* ------------------- scripts/concurrentIncrement.js ------------------- *)
\* Counter.increment() with a lost update: an increment that finds the count
\* already raised leaves it as it is.
incrementLostUpdate(count) ==
    IF count > initialState THEN count ELSE count + 1

\* Counter.increment(): `count += 1`. count is a uint256 with the checked
\* arithmetic of Solidity 0.8 (an increment at 2^256 - 1 reverts); a Counter
\* starts at 0 and the counts here stay far below. The node executes the
\* transactions one at a time.
increment(count) == count + 1

\* The rest of the state is not used by the script.
ScriptUnchanged ==
    /\ UNCHANGED <<harness, totalTasks, initialState>>
    /\ UNCHANGED <<contractVars, setupVars, loopVars, poolVars>>
    /\ UNCHANGED <<limit, results, activeCount, taskIndex, errors,
                   resolveCalls, unhandled, settledAs>>

\* `counter.connect(signer).increment()` of signer i: the transaction reaches
\* the node and the promise resolves with the transaction response.
SendIncrement(i) ==
    /\ harness = "script" /\ ~crashed
    /\ mainPc = "awaitSend"
    /\ taskState[i] = "unsent"
    /\ taskState' = [taskState EXCEPT ![i] = "pending"]
    /\ UNCHANGED <<ledger, mainPc, crashed, report, taskError>>
    /\ ScriptUnchanged

\* The send of signer i fails: nothing reaches the node.
SendIncrementFails(i, e) ==
    /\ harness = "script" /\ ~crashed
    /\ mainPc = "awaitSend"
    /\ taskState[i] = "unsent"
    /\ taskState' = [taskState EXCEPT ![i] = "sendFailed"]
    /\ taskError' = [taskError EXCEPT ![i] = e]
    /\ UNCHANGED <<ledger, mainPc, crashed, report>>
    /\ ScriptUnchanged

\* The node mines the transaction of signer i: Counter.increment() runs.
MineIncrement(i) ==
    /\ harness = "script" /\ ~crashed
    /\ taskState[i] = "pending"
    /\ taskState' = [taskState EXCEPT ![i] = "mined"]
    /\ ledger' = increment(ledger)
    /\ UNCHANGED <<mainPc, crashed, report, taskError>>
    /\ ScriptUnchanged

\* `await Promise.all(transactionPromises)` resolves: every transaction was
\* sent; main asks for the receipts.
AllSent ==
    /\ harness = "script" /\ ~crashed
    /\ mainPc = "awaitSend"
    /\ \A i \in Tasks : taskState[i] \in {"pending", "mined"}
    /\ mainPc' = "awaitReceipts"
    /\ UNCHANGED <<ledger, crashed, report, taskState, taskError>>
    /\ ScriptUnchanged

\* `await Promise.all(receiptPromises)` resolves with one receipt for each
\* transaction; main asks for the final count.
AllMined ==
    /\ harness = "script" /\ ~crashed
    /\ mainPc = "awaitReceipts"
    /\ \A i \in Tasks : taskState[i] = "mined"
    /\ mainPc' = "awaitFinal"
    /\ UNCHANGED <<ledger, crashed, report, taskState, taskError>>
    /\ ScriptUnchanged

\* A send failed, or txResponse.wait() throws: Promise.all rejects and the
\* catch of main() ends the process.
ScriptFails ==
    /\ harness = "script" /\ ~crashed
    /\ \/ mainPc = "awaitSend" /\ \E i \in Tasks : taskState[i] = "sendFailed"
       \/ mainPc = "awaitReceipts" /\ totalTasks > 0
    /\ mainPc' = "fatal"
    /\ crashed' = TRUE
    /\ UNCHANGED <<ledger, report, taskState, taskError>>
    /\ ScriptUnchanged

\* Step 5: finalCount is read and compared with
\* initialCount + BigInt(transactionReceipts.length).
ScriptVerify ==
    /\ harness = "script" /\ ~crashed
    /\ mainPc = "awaitFinal"
    /\ LET scriptExpectedCount == initialState + totalTasks
       IN report' = [stored |-> TRUE,
                     finalCount |-> ledger,
                     expectedCount |-> scriptExpectedCount,
                     verified |-> (ledger = scriptExpectedCount)]
    /\ mainPc' = "done"
    /\ UNCHANGED <<ledger, crashed, taskState, taskError>>
    /\ ScriptUnchanged

\* The script has deployed a Counter, read its count and taken its signers
\* (at most numberOfConcurrentTx of them), and is sending the transactions.
InitScript ==
    /\ NoContract
    /\ harness = "script"
    /\ totalTasks \in 0 .. MaxTasks
    /\ ledger = 0
    /\ initialState = 0
    /\ mainPc = "awaitSend"
    /\ crashed = FALSE
    /\ report = NoReport
    /\ setupPc = "ready"
    /\ signerCount = totalTasks
    /\ assigned = [k \in 1 .. totalTasks |-> k - 1]
    /\ deployed = TRUE
    /\ levelsLeft = 0
    /\ benchmarkResults = <<>>
    /\ limit = 0
    /\ results = <<>>
    /\ activeCount = 0
    /\ taskIndex = 0
    /\ errors = 0
    /\ taskState = [i \in 0 .. (totalTasks - 1) |-> "unsent"]
    /\ taskError = [i \in 0 .. (totalTasks - 1) |-> NoError]
    /\ resolveCalls = 0
    /\ unhandled = FALSE
    /\ settledAs = [i \in 0 .. (totalTasks - 1) |-> "pending"]
    /\ workerCount = 0
    /\ traced = FALSE
    /\ wpc = <<>>
    /\ attempt = <<>>
    /\ result = <<>>
    /\ outcomes = <<>>
    /\ delays = <<>>
    /\ tally = NoTally

NextScript ==
    \/ \E i \in Tasks : SendIncrement(i)
    \/ \E i \in Tasks, e \in Errors : SendIncrementFails(i, e)
    \/ \E i \in Tasks : MineIncrement(i)
    \/ AllSent
    \/ AllMined
    \/ ScriptFails
    \/ ScriptVerify

\* Every task of a worker pool is in its first backoff: its first attempt
\* failed with a retryable error.
InitBackoff ==
    /\ NoContract
    /\ harness \in {"counter", "deposit"}
    /\ traced = FALSE
    /\ totalTasks = TOTAL_TRANSACTIONS
    /\ workerCount = TOTAL_TRANSACTIONS
    /\ ledger = 0
    /\ initialState = 0
    /\ mainPc = "awaitAll"
    /\ crashed = FALSE
    /\ report = NoReport
    /\ levelsLeft = 0
    /\ benchmarkResults = <<>>
    /\ wpc = [i \in 0 .. (totalTasks - 1) |-> "backoff"]
    /\ attempt = [i \in 0 .. (totalTasks - 1) |-> 1]
    /\ \E e \in {x \in Errors : Retryable(x, 1) /\ ~SplitThrows(x)} :
          result = [i \in 0 .. (totalTasks - 1) |-> FailureResult(i, e)]
    /\ outcomes = [i \in 0 .. (totalTasks - 1) |-> <<>>]
    /\ delays = [i \in 0 .. (totalTasks - 1) |-> <<backoffDelay(1)>>]
    /\ tally = NoTally
    /\ limit = 0
    /\ results = <<>>
    /\ activeCount = 0
    /\ taskIndex = 0
    /\ errors = 0
    /\ taskState = <<>>
    /\ taskError = <<>>
    /\ resolveCalls = 0
    /\ unhandled = FALSE
    /\ settledAs = <<>>
    /\ SetupDone

NextBackoff == \E i \in Tasks, e \in Errors : RetryIteration(i, e)

\* The steps of the worker tasks, with the larger sample of errors.
NextClassify ==
    \/ SubmitAll
    \/ \E i \in Tasks : WorkerStart(i)
    \/ \E i \in Tasks : SubmitOk(i)
    \/ \E i \in Tasks, e \in ErrorSamples : SubmitThrows(i, e)
    \/ \E i \in Tasks : WaitSuccess(i)
    \/ \E i \in Tasks, e \in ErrorSamples, mined \in BOOLEAN :
          WaitThrows(i, e, mined)
    \/ \E i \in Tasks : BackoffDone(i)

NextSetup ==
    \/ Startup
    \/ Deploy
    \/ PrepareTask
    \/ TasksPrepared

Next == NextSetup \/ NextCoop \/ NextPool

\* Every harness.
Spec == Init /\ [][Next]_vars
\* The cooperative harness alone.
SpecCoop == InitCoop /\ [][NextCoop]_vars
\* The cooperative harness with the event loop's scheduling: a promise
\* callback that is ready runs, and main resumes when its await is over.
\* Nothing is assumed about the ledger: a task may never settle.
FairSpecCoop ==
    /\ SpecCoop
    /\ WF_vars(CallRun)
    /\ WF_vars(\E i \in Tasks : ThenCallback(i))
    /\ WF_vars(\E i \in Tasks : CatchCallback(i))
    /\ WF_vars(\E i \in Tasks : FinallyCallback(i))
    /\ WF_vars(MainResume)
\* The start of main(): the check of the signers, the first deployment and
\* the making of the tasks.
SpecSetup == InitSetup /\ [][NextSetup]_vars
\* The retry loops of a worker pool whose every attempt fails with a
\* retryable error.
SpecBackoff == InitBackoff /\ [][NextBackoff]_vars
\* One worker task that meets the errors of the larger sample.
SpecClassify == InitWorker /\ [][NextClassify]_vars
\* scripts/concurrentIncrement.js and the Counter it deploys.
SpecScript == InitScript /\ [][NextScript]_vars
\* A worker-pool harness alone.
SpecPool == InitPool /\ [][NextPool]_vars
\* One worker task (one call of the function the pool runs) and its main.
SpecWorker == InitWorker /\ [][NextPool]_vars

(* ====================================================================== *)
(*                  contracts/AccountBalance.sol alone                    *)
(* ====================================================================== *)

\* The largest msg.value of one transaction, and the Ether the senders
\* have to spend between them.
MaxValue == 2
MaxEther == 4

\* The signers of scripts/interactAccountBalance.js.
Addresses == {"deployer", "user1", "user2", "user3"}

RECURSIVE SumOver(_, _)
SumOver(f, S) ==
    IF S = {} THEN 0
    ELSE LET a == CHOOSE x \in S : TRUE
         IN f[a] + SumOver(f, S \ {a})

\* The sum of all recorded balances.
SumOfBalances == SumOver(balances, DOMAIN balances)

\* What stays as it was when a transaction reverts; the harness state is
\* never touched by a call to the contract.
HarnessUnchanged == UNCHANGED <<mainVars, setupVars, loopVars, coopVars, poolVars>>

Reverts(call) ==
    /\ lastCall' = call
    /\ UNCHANGED <<balances, owner, contractBalance, withdrawn>>
    /\ HarnessUnchanged

\* modifier onlyOwner
onlyOwner(msgSender) == msgSender = owner

\* function getBalance(address account) / getMyBalance()
getBalance(account) == balances[account]

\* function getContractBalance()
getContractBalance == contractBalance

\* constructor(): the deployer becomes the owner; all balances are 0.
constructor(msgSender) ==
    /\ owner = msgSender
    /\ balances = [a \in Addresses |-> 0]
    /\ contractBalance = 0
    /\ withdrawn = FALSE
    /\ lastCall = Call("constructor", msgSender, 0, FALSE)

\* balances[msg.sender] += msg.value, with the Ether of the transaction
\* added to the contract's balance.
Credit(msgSender, msgValue) ==
    /\ balances' = [balances EXCEPT ![msgSender] = @ + msgValue]
    /\ contractBalance' = contractBalance + msgValue

depositCreditsOwner(msgSender, msgValue) ==
    /\ harness = "account"
    /\ SumOfBalances + msgValue <= MaxEther
    /\ IF msgValue > 0
       THEN /\ Credit(owner, msgValue)
            /\ lastCall' = Call("deposit", msgSender, msgValue, FALSE)
            /\ UNCHANGED <<owner, withdrawn>>
            /\ HarnessUnchanged
       ELSE Reverts(Call("deposit", msgSender, msgValue, TRUE))

\* function deposit() public payable
deposit(msgSender, msgValue) ==
    /\ harness = "account"
    /\ SumOfBalances + msgValue <= MaxEther
    /\ IF msgValue > 0
       THEN /\ Credit(msgSender, msgValue)
            /\ lastCall' = Call("deposit", msgSender, msgValue, FALSE)
            /\ UNCHANGED <<owner, withdrawn>>
            /\ HarnessUnchanged
       ELSE Reverts(Call("deposit", msgSender, msgValue, TRUE))

\* receive() external payable: a plain transfer of Ether to the contract.
receive(msgSender, msgValue) ==
    /\ harness = "account"
    /\ SumOfBalances + msgValue <= MaxEther
    /\ lastCall' = Call("receive", msgSender, msgValue, FALSE)
    /\ IF msgValue > 0
       THEN Credit(msgSender, msgValue)
       ELSE UNCHANGED <<balances, contractBalance>>
    /\ UNCHANGED <<owner, withdrawn>>
    /\ HarnessUnchanged

withdrawAllByAnyone(msgSender, msgValue, success) ==
    /\ harness = "account"
    /\ IF \/ msgValue > 0
          \/ contractBalance = 0
          \/ ~success
       THEN Reverts(Call("withdrawAll", msgSender, msgValue, TRUE))
       ELSE /\ contractBalance' = 0
            /\ withdrawn' = TRUE
            /\ lastCall' = Call("withdrawAll", msgSender, msgValue, FALSE)
            /\ UNCHANGED <<balances, owner>>
            /\ HarnessUnchanged

\* function withdrawAll() public onlyOwner.  The function is not payable,
\* so a call that carries Ether reverts; success is what owner.call
\* returns.
withdrawAll(msgSender, msgValue, success) ==
    /\ harness = "account"
    /\ IF \/ msgValue > 0
          \/ ~onlyOwner(msgSender)
          \/ contractBalance = 0
          \/ ~success
       THEN Reverts(Call("withdrawAll", msgSender, msgValue, TRUE))
       ELSE /\ contractBalance' = 0
            /\ withdrawn' = TRUE
            /\ lastCall' = Call("withdrawAll", msgSender, msgValue, FALSE)
            /\ UNCHANGED <<balances, owner>>
            /\ HarnessUnchanged

\* A freshly deployed AccountBalance; no harness is running.
InitAccount ==
    /\ \E deployer \in Addresses : constructor(deployer)
    /\ harness = "account"
    /\ totalTasks = 0
    /\ ledger = 0
    /\ initialState = 0
    /\ mainPc = "done"
    /\ crashed = FALSE
    /\ report = NoReport
    /\ setupPc = "ready"
    /\ signerCount = 0
    /\ assigned = <<>>
    /\ deployed = TRUE
    /\ levelsLeft = 0
    /\ benchmarkResults = <<>>
    /\ limit = 0
    /\ results = <<>>
    /\ activeCount = 0
    /\ taskIndex = 0
    /\ errors = 0
    /\ taskState = <<>>
    /\ taskError = <<>>
    /\ resolveCalls = 0
    /\ unhandled = FALSE
    /\ settledAs = <<>>
    /\ workerCount = 0
    /\ traced = FALSE
    /\ wpc = <<>>
    /\ attempt = <<>>
    /\ result = <<>>
    /\ outcomes = <<>>
    /\ delays = <<>>
    /\ tally = NoTally

NextAccount ==
    \/ \E msgSender \in Addresses, msgValue \in 0 .. MaxValue :
           deposit(msgSender, msgValue)
    \/ \E msgSender \in Addresses, msgValue \in 0 .. MaxValue :
           receive(msgSender, msgValue)
    \/ \E msgSender \in Addresses, msgValue \in 0 .. MaxValue, success \in BOOLEAN :
           withdrawAll(msgSender, msgValue, success)

\* Transactions of any signer to one deployed AccountBalance.
SpecAccount == InitAccount /\ [][NextAccount]_vars

(* ====================================================================== *)
(*                              Properties                                *)
(* ====================================================================== *)

\* A task of runTasksWithConcurrency that was started and whose finally
\* callback has not run yet.
InFlight(i) ==
    taskState[i] \in {"running", "fulfilled", "rejected", "counted", "countedThrew"}

\* C1: with limit >= 1 at most limit tasks of runTasksWithConcurrency are
\* started and not yet settled (activeCount <= limit, and activeCount counts
\* exactly the started tasks whose finally callback has not run); the worker
\* pool never executes more than workerCount tasks at once.
C1_ConcurrencyBound ==
    /\ (harness = "coop" /\ limit >= 1) =>
          /\ activeCount <= limit
          /\ activeCount = Cardinality({i \in Tasks : InFlight(i)})
          /\ Cardinality({i \in Tasks : taskState[i] = "running"}) <= limit
    /\ PoolHarness =>
          Cardinality({i \in Tasks : Executing(i)}) <= workerCount

\* The limit is reached while tasks are still waiting, after a completion.
C1_Witness ==
    /\ harness = "coop" /\ limit >= 1
    /\ activeCount = limit
    /\ taskIndex < totalTasks
    /\ \E i \in Tasks : taskState[i] = "done"

\* A result object that has no success field.
MalformedResult == [txIndex |-> 0]
SampleResults == {SuccessResult(0), RevertResult(0), MalformedResult}
ZeroTally == [successful |-> 0, failed |-> 0, amount |-> 0]

\* C2: in a completed run successCount + failureCount is the number of
\* tasks, each task being counted once: as a success when it succeeded, as a
\* failure otherwise (a result without a boolean success field counts as a
\* failure); in the cooperative harness successfulTx is results.length and
\* failedTx is the total minus it, which is the number of rejected tasks.
C2_Conservation ==
    /\ report.stored =>
          /\ report.successfulTx + report.failedTx = totalTasks
          /\ harness = "coop" =>
                /\ report.successfulTx = Len(results)
                /\ report.successfulTx =
                      Cardinality({i \in Tasks : settledAs[i] = "fulfilled"})
                /\ report.failedTx =
                      Cardinality({i \in Tasks : settledAs[i] = "rejected"})
          /\ PoolHarness =>
                /\ report.successfulTx =
                      Cardinality({i \in Tasks : result[i].success})
                /\ report.failedTx =
                      Cardinality({i \in Tasks : ~result[i].success})
    /\ PoolHarness =>
          \A r1 \in SampleResults, r2 \in SampleResults :
              LET t == Count(<<r1, r2>>, 1, ZeroTally) IN
              /\ t.successful + t.failed = 2
              /\ t.successful =
                    Cardinality({k \in 1 .. 2 :
                        <<r1, r2>>[k] = SuccessResult(0)})

\* A completed worker-pool run with a success and a failure.
C2_Witness ==
    /\ PoolHarness
    /\ report.stored
    /\ report.successfulTx = 1
    /\ report.failedTx = 1

\* The submissions task i has made: its finished attempts and the one in
\* progress.
Submissions(i) ==
    Len(outcomes[i]) + (IF wpc[i] \in {"submitting", "waiting"} THEN 1 ELSE 0)

\* C3: a worker task never makes more than MAX_ATTEMPTS submissions, and its
\* attempt counter is the number of submissions made.
C3_RetryBound ==
    (PoolHarness /\ traced) =>
        \A i \in Tasks :
            /\ attempt[i] <= MAX_ATTEMPTS
            /\ Submissions(i) <= MAX_ATTEMPTS
            /\ attempt[i] = Submissions(i)

IsError(o) == o.kind \in {"submitError", "waitError"}

\* A task that used all its attempts, each ending in an error.
C3_Witness ==
    /\ PoolHarness /\ traced
    /\ \E i \in Tasks :
          /\ attempt[i] = MAX_ATTEMPTS
          /\ Len(outcomes[i]) = MAX_ATTEMPTS
          /\ \A k \in 1 .. MAX_ATTEMPTS : IsError(outcomes[i][k])

\* C4: an attempt whose receipt has status 0 is the task's last attempt: the
\* task has returned the revert failure and made no further submission; a
\* task whose first attempt is rejected has used exactly 1 attempt.
C4_NoRetryAfterRejection ==
    (PoolHarness /\ traced) =>
        \A i \in Tasks :
            \A k \in 1 .. Len(outcomes[i]) :
                outcomes[i][k].kind = "status0" =>
                    /\ k = Len(outcomes[i])
                    /\ wpc[i] = "returned"
                    /\ attempt[i] = k
                    /\ result[i] = RevertResult(i)
                    /\ ~result[i].success

\* The first attempt of a task was rejected.
C4_Witness ==
    /\ PoolHarness /\ traced
    /\ \E i \in Tasks :
          /\ outcomes[i] = <<Outcome("status0", NoError)>>
          /\ attempt[i] = 1
          /\ wpc[i] = "returned"

\* The error kinds the ledger client raises for a credential-sequencing
\* conflict or a transient transport fault.
RetryableCodes == {"NONCE_EXPIRED", "TIMEOUT"}
IsRetryableError(o) == IsError(o) /\ o.error.code \in RetryableCodes
IsTerminalError(o) == IsError(o) /\ o.error.code \notin RetryableCodes

C7_TerminalErrorEndsTask ==
    (PoolHarness /\ traced) =>
        \A i \in Tasks :
            \A k \in 1 .. Len(outcomes[i]) :
                IsTerminalError(outcomes[i][k]) =>
                    /\ k = Len(outcomes[i])
                    /\ attempt[i] = k
                    /\ Len(delays[i]) = k - 1
                    /\ wpc[i] = "returned"
                    /\ result[i] = FailureResult(i, outcomes[i][k].error)

\* C8: a run requested with limit <= 0 is rejected as a configuration error
\* before any task is admitted.
C8_RejectedBeforeAdmission ==
    (harness = "coop" /\ limit <= 0 /\ mainPc # "prepared") =>
        /\ runPromise = "rejected"
        /\ taskIndex = 0

\* C10 as claimed: the promise is resolved only when every task has been
\* started and has settled, with activeCount = 0, and resolve is called once.
C10_ResolvedOnlyWhenIdle ==
    (harness = "coop" /\ resolveCalls > 0) =>
        /\ taskIndex = totalTasks
        /\ activeCount = 0
        /\ Len(results) + errors = totalTasks
        /\ resolveCalls = 1

\* C10, amended: the promise is resolved only when every task has been
\* started, has settled and has been counted; activeCount is then the number
\* of counted tasks whose finally callback has not run yet, and each of those
\* callbacks calls resolve once more.
C10_ResolvedWhenAllCounted ==
    (harness = "coop" /\ resolveCalls > 0) =>
        /\ taskIndex = totalTasks
        /\ Len(results) + errors = totalTasks
        /\ \A i \in Tasks :
              /\ taskState[i] \in {"counted", "countedThrew", "done"}
              /\ settledAs[i] # "pending"
        /\ activeCount =
              Cardinality({i \in Tasks :
                  taskState[i] \in {"counted", "countedThrew"}})
        /\ resolveCalls <=
              (IF totalTasks = 0 THEN 1
               ELSE Cardinality({i \in Tasks : taskState[i] = "done"}))

\* The promise is resolved while the finally callback of another task is
\* still to run.
C10_Witness ==
    /\ harness = "coop"
    /\ resolveCalls = 1
    /\ activeCount = 1
    /\ totalTasks >= 2

\* No task of runTasksWithConcurrency is started and not yet settled.
NoneRunning == \A i \in Tasks : taskState[i] # "running"

\* C9: with limit >= 1, if every started task eventually settles (a task
\* runs once, so: from some point on no started task is unsettled) then
\* runTasksWithConcurrency eventually resolves, whatever the outcomes; and
\* as long as it has not resolved some task is in flight (never a state with
\* unfinished tasks, none in flight and nothing more to admit).
C9_EventuallyResolves ==
    /\ []((harness = "coop" /\ limit >= 1 /\ mainPc # "prepared"
             /\ ~resolved) =>
            \E i \in Tasks : InFlight(i))
    /\ <>[]NoneRunning => <>[](limit >= 1 => resolved)

\* A run in which every task failed has resolved.
C9_Witness ==
    /\ harness = "coop" /\ limit >= 1
    /\ totalTasks >= 2
    /\ errors = totalTasks
    /\ resolved

\* Task i has been started (task() was called).
Started(i) == taskState[i] # "unstarted"

\* C11: runTasksWithConcurrency starts the tasks in list order: the started
\* tasks are always the first taskIndex tasks of the list, and a step that
\* starts task j leaves every task before j started; the order in which the
\* tasks complete is free.
C11_StartedInListOrder ==
    /\ [](harness = "coop" =>
            /\ taskIndex \in 0 .. totalTasks
            /\ \A i \in Tasks : Started(i) <=> i < taskIndex)
    /\ [][harness = "coop" =>
            \A j \in Tasks :
                (~Started(j) /\ Started(j)') =>
                    /\ j >= taskIndex
                    /\ j < taskIndex'
                    /\ \A i \in Tasks : i < j => Started(i)']_vars

\* A later task has completed while an earlier one is still running, and
\* the task after it was started in its place.
C11_Witness ==
    /\ harness = "coop"
    /\ \E i \in Tasks, j \in Tasks :
          /\ i < j
          /\ taskState[i] = "running"
          /\ taskState[j] = "done"
          /\ j + 1 \in Tasks
          /\ taskState[j + 1] = "running"

\* C12: with limit >= 1, the step in which a completed task gives up its slot
\* (its finally callback) starts the next unstarted task, if there is one, so
\* that activeCount is unchanged by it; and once the run has been called,
\* whenever unstarted tasks remain activeCount equals limit.
C12_SlotRefilledAtOnce ==
    /\ []((harness = "coop" /\ limit >= 1 /\ mainPc # "prepared"
             /\ taskIndex < totalTasks) =>
            activeCount = limit)
    /\ [][(harness = "coop" /\ limit >= 1 /\ taskIndex < totalTasks) =>
            \A i \in Tasks :
                (taskState[i] # "done" /\ taskState'[i] = "done") =>
                    /\ taskIndex' = taskIndex + 1
                    /\ taskState'[taskIndex] = "running"
                    /\ activeCount' = activeCount]_vars

\* Two slots: the first completion has refilled its slot with the last
\* task of the list.
C12_Witness ==
    /\ harness = "coop" /\ limit = 2
    /\ MicrotasksDrained
    /\ Cardinality({i \in Tasks : taskState[i] = "done"}) = 1
    /\ Cardinality({i \in Tasks : taskState[i] = "running"}) = 2
    /\ taskIndex = totalTasks

\* The tasks the run reports as succeeded, and their aggregate effect: every
\* success adds Effect (1 to the count, the deposit to the balance).
ReportedSuccesses ==
    IF harness = "coop"
    THEN Cardinality({i \in Tasks : settledAs[i] = "fulfilled"})
    ELSE Cardinality({i \in Tasks : result[i].success})
AggregateEffect == ReportedSuccesses * Effect

\* C13: in every completed run, whatever errors the submit and confirmation
\* calls raised, the final ledger state is the initial state plus the
\* aggregate effect of the tasks reported as succeeded, and the run is
\* reported verified.
C13_VerificationIdentity ==
    report.stored =>
        /\ ledger = initialState + AggregateEffect
        /\ report.finalCount = initialState + AggregateEffect
        /\ report.verified

\* Every task of the run has reached its end: its promise has settled, or
\* the worker has returned its result.
AllTerminal ==
    IF harness = "coop"
    THEN \A i \in Tasks : settledAs[i] # "pending"
    ELSE \A i \in Tasks : wpc[i] = "returned"

\* C14: main asks for the final ledger state only after every task is
\* terminal; the value it gets is the state the run ended with; and it
\* reports the run verified exactly when that value is the initial state
\* plus the aggregate effect of the tasks reported as succeeded.
C14_VerifierReadsAfterAllTerminal ==
    /\ mainPc \in {"awaitFinal", "done", "summary"} => AllTerminal
    /\ report.stored =>
          /\ AllTerminal
          /\ report.finalCount = ledger
          /\ report.successfulTx = ReportedSuccesses
          /\ report.verified <=>
                (report.finalCount = initialState + AggregateEffect)

\* A deposit run with one success and one failure that is reported
\* verified.
C14_Witness ==
    /\ harness = "deposit"
    /\ report.stored
    /\ report.verified
    /\ ReportedSuccesses = 1
    /\ report.finalCount = initialState + depositAmountWei

\* What ends the process before the summary: an unhandled rejection in the
\* cooperative harness, a rejected worker task in a worker-pool harness.
AbortCause ==
    IF harness = "coop" THEN unhandled ELSE \E i \in Tasks : wpc[i] = "threw"

\* C15: a run whose final state differs from the expected one is stored like
\* any other: the entry of every level that ended is in benchmarkResults,
\* verified or not, and stays there; the process never ends because of a
\* mismatch; and after the entry is stored main can go on, to the next level
\* or to the summary.
C15_MismatchDoesNotAbort ==
    /\ [](report.stored =>
            /\ ~crashed
            /\ mainPc \in {"done", "summary"}
            /\ Len(benchmarkResults) >= 1
            /\ benchmarkResults[Len(benchmarkResults)] = report)
    /\ [](crashed => AbortCause)
    /\ [](mainPc = "done" => (report.stored /\ ENABLED (NextLevel \/ Summary)))
    /\ [][/\ Len(benchmarkResults') >= Len(benchmarkResults)
          /\ SubSeq(benchmarkResults', 1, Len(benchmarkResults))
                = benchmarkResults]_vars

\* The first level ended with a mismatch, the next level was run and the
\* summary was reached with both entries.
C15_Witness ==
    /\ mainPc = "summary"
    /\ Len(benchmarkResults) = 2
    /\ ~benchmarkResults[1].verified
    /\ benchmarkResults[2].verified

\* C16: in a completed deposit run the total amount reported as deposited
\* is the sum over the succeeded tasks of the amount each one reports, which
\* is the deposit amount; a failed task reports 0 and adds nothing: the
\* total is successCount * depositAmount.
C16_DepositAggregate ==
    (harness = "deposit" /\ tally.done) =>
        /\ tally.successful = ReportedSuccesses
        /\ tally.successful + tally.failed = totalTasks
        /\ tally.amount = tally.successful * depositAmountWei
        /\ \A i \in Tasks :
              BigInt(result[i].amountDeposited) =
                  (IF result[i].success THEN depositAmountWei ELSE 0)

\* A counted deposit run with one success and one failure.
C16_Witness ==
    /\ harness = "deposit"
    /\ tally.done
    /\ tally.successful = 1
    /\ tally.failed = 1
    /\ tally.amount = depositAmountWei

\* C17: whatever error a task runs into, the task ends with a failed
\* outcome: no worker task rejects towards Promise.all, and no rejection
\* escapes the handlers runTasksWithConcurrency puts on a task.
C17_EveryErrorBecomesOutcome ==
    /\ PoolHarness => \A i \in Tasks : wpc[i] # "threw"
    /\ harness = "coop" =>
          /\ ~unhandled
          /\ \A i \in Tasks : taskState[i] # "countedThrew"

\* Task i has ended in failure: its promise rejected, or its worker gave up
\* (a failure result returned, or the worker function itself rejected).
Failed(i) ==
    IF harness = "coop"
    THEN settledAs[i] = "rejected"
    ELSE \/ wpc[i] = "threw"
         \/ wpc[i] = "returned" /\ ~result[i].success

\* C18: the failure of a task touches that task's outcome only: it never
\* ends the process, the slot it held is given to the next unstarted task,
\* the tasks that succeeded are all counted as successes, and the run's
\* report counts every task.
C18_FailureIsLocal ==
    (\E j \in Tasks : Failed(j)) =>
        /\ ~crashed
        /\ mainPc # "fatal"
        /\ (harness = "coop" /\ limit >= 1 /\ taskIndex < totalTasks) =>
              activeCount = limit
        /\ report.stored =>
              /\ report.successfulTx = ReportedSuccesses
              /\ report.successfulTx + report.failedTx = totalTasks

\* The operation of worker task i was confirmed as reverted: a receipt with
\* status 0, or the CALL_EXCEPTION error tx.wait() raises for such a receipt.
Reverted(i) ==
    /\ wpc[i] = "returned"
    /\ result[i].error \in {RevertResult(i).error, RevertError.message}

C20_NonceConflictRetried ==
    /\ [](PoolHarness =>
            \A i \in Tasks, e \in Errors :
                (/\ isNonceError(e)
                 /\ wpc[i] = "returned"
                 /\ result[i] = FailureResult(i, e)) =>
                    attempt[i] = MAX_ATTEMPTS)
    /\ [][harness = "coop" =>
            \A i \in Tasks :
                (/\ taskState[i] = "rejected"
                 /\ isNonceError(taskError[i])
                 /\ taskState'[i] # "rejected") =>
                    errors' = errors]_vars

\* No task of the run has been made, handed over or started.
NothingStarted ==
    /\ assigned = <<>>
    /\ mainPc = "prepared"
    /\ harness = "coop" =>
          taskIndex = 0 /\ \A i \in Tasks : taskState[i] = "unstarted"
    /\ PoolHarness => \A i \in Tasks : wpc[i] = "queued"

\* C21: with no signer (an empty credential pool) main() ends with a fatal
\* error at its check of the signers: no contract is ever deployed, no task
\* is made and none is started.
C21_NoSignersIsFatal ==
    signerCount = 0 =>
        /\ setupPc \in {"start", "fatal"}
        /\ ~deployed
        /\ NothingStarted
        /\ ~report.stored

\* main() has ended at the check of the signers.
C21_Witness ==
    /\ signerCount = 0
    /\ setupPc = "fatal"
    /\ ~deployed

\* The concurrency of the run: the limit handed to runTasksWithConcurrency,
\* or the number of the worker threads.
Concurrency == IF harness = "coop" THEN limit ELSE workerCount

\* C22: the task made i-th (from 0) is given the signer i mod the number of
\* the signers, whatever the number of the tasks and the concurrency; the
\* concurrency is not changed to fit the number of the signers.
C22_RoundRobinSigners ==
    /\ [](\A k \in 1 .. Len(assigned) :
            /\ assigned[k] \in 0 .. (signerCount - 1)
            /\ \E q \in 0 .. MaxTasks : q * signerCount + assigned[k] = k - 1)
    /\ [][Concurrency' = Concurrency]_vars

\* Three tasks over two signers with a concurrency of two: the third task
\* wraps around to the first signer.
C22_Witness ==
    /\ signerCount = 2
    /\ Concurrency = 2
    /\ assigned = <<0, 1, 0>>
    /\ setupPc = "ready"

\* The tasks whose then or catch callback has run.
Counted == {i \in Tasks : taskState[i] \in {"counted", "countedThrew", "done"}}

\* The tasks that are counted and whose finally callback has not run yet.
AwaitingFinally == {i \in Tasks : taskState[i] \in {"counted", "countedThrew"}}

\* C23 as claimed: in every state of runTasksWithConcurrency
\* results.length + errors + activeCount = taskIndex.
C23_CountsAddUp ==
    harness = "coop" => Len(results) + errors + activeCount = taskIndex

\* C23, amended: a task is counted once, in results or in errors, by its then
\* or catch callback, and leaves activeCount in its later finally callback;
\* results.length + errors + activeCount exceeds taskIndex by the number of
\* the counted tasks whose finally callback is still to run, and equals
\* taskIndex when no such callback is waiting.
C23_CountedOnce ==
    harness = "coop" =>
        /\ Len(results) + errors = Cardinality(Counted)
        /\ Len(results) + errors + activeCount =
              taskIndex + Cardinality(AwaitingFinally)
        /\ Len(results) + errors <= taskIndex
        /\ taskIndex <= totalTasks
        /\ AwaitingFinally = {} =>
              Len(results) + errors + activeCount = taskIndex

\* One task is counted in results and one in errors, and neither finally
\* callback has run.
C23_Witness ==
    /\ harness = "coop"
    /\ Len(results) = 1
    /\ errors = 1
    /\ activeCount = 2
    /\ taskIndex = 2
    /\ Cardinality(AwaitingFinally) = 2

\* C24: the delay a worker task takes after the retryable failure of
\* attempt k is RETRY_DELAY_MS * 2^(k-1): RETRY_DELAY_MS after the first
\* attempt and twice the delay before after each later one, so the delays of
\* a task never decrease.
C24_BackoffDoubles ==
    PoolHarness =>
        \A i \in Tasks :
            \A k \in 1 .. Len(delays[i]) :
                IF k = 1
                THEN delays[i][k] = RETRY_DELAY_MS
                ELSE /\ delays[i][k] % 2 = 0
                     /\ delays[i][k] \div 2 = delays[i][k - 1]
                     /\ delays[i][k] >= delays[i][k - 1]

\* The state of worker task i in the terms of the specification: "Pending"
\* before its first attempt, "Submitted" while an attempt is with the ledger
\* client (the send or the confirmation wait), "RetryableFailure" during a
\* backoff, "Confirmed" / "TerminalFailure" when the function has ended.
TaskStateOf(pc, res) ==
    CASE pc = "queued" -> "Pending"
      [] pc \in {"submitting", "waiting"} -> "Submitted"
      [] pc = "backoff" -> "RetryableFailure"
      [] pc = "returned" /\ res.success -> "Confirmed"
      [] OTHER -> "TerminalFailure"

\* The steps of a worker task; after a backoff the task passes the head of
\* the loop (Pending) and submits at once.
TaskTransition(from, to, att, att2) ==
    \/ from = to /\ att2 = att
    \/ from = "Pending" /\ to = "Submitted" /\ att2 = att + 1
    \/ from = "Submitted" /\ att2 = att
          /\ to \in {"Confirmed", "TerminalFailure", "RetryableFailure"}
    \/ from = "RetryableFailure" /\ to = "Submitted" /\ att2 = att + 1

\* C25: a worker task only goes Pending -> Submitted -> Confirmed,
\* Submitted -> TerminalFailure, or Submitted -> RetryableFailure -> Pending
\* (-> Submitted); once Confirmed or TerminalFailure nothing more happens for
\* it: no attempt, no wait, no backoff, and its result stays.
C25_TaskTransitions ==
    [][PoolHarness =>
         \A i \in Tasks :
            /\ TaskTransition(TaskStateOf(wpc[i], result[i]),
                              TaskStateOf(wpc'[i], result'[i]),
                              attempt[i], attempt'[i])
            /\ TaskStateOf(wpc[i], result[i]) \in {"Confirmed", "TerminalFailure"}
                  => /\ wpc'[i] = wpc[i]
                     /\ attempt'[i] = attempt[i]
                     /\ result'[i] = result[i]
                     /\ delays'[i] = delays[i]
                     /\ outcomes'[i] = outcomes[i]]_vars

\* A task that failed, backed off, was submitted again and was confirmed, and
\* whose main has gone on since.
C25_Witness ==
    /\ PoolHarness
    /\ \E i \in Tasks :
          /\ TaskStateOf(wpc[i], result[i]) = "Confirmed"
          /\ attempt[i] = 2
          /\ Len(delays[i]) = 1
    /\ mainPc \notin {"prepared", "awaitAll"}

\* The message patterns of a retryable error, in lower case.
RetryablePatterns ==
    { <<"nonce", "too", "low">>,
      <<"nonce", "has", "already", "been", "used">>,
      <<"replacement", "transaction", "underpriced">>,
      <<"failed", "to", "detect", "network">>,
      <<"could", "not", "detect", "network">>,
      <<"timeout">>,
      <<"network", "error">> }

\* The error is retryable as the classification is stated: by its code, or
\* by a pattern in its lower-cased message; never by a missing message.
StatedRetryable(e) ==
    \/ e.code = "NONCE_EXPIRED"
    \/ /\ e.message # NoMessage
       /\ \E p \in RetryablePatterns : includes(toLowerCase(e.message), p)

\* C26: the classifier of either worker file marks an error retryable exactly
\* when its code is NONCE_EXPIRED or its lower-cased message contains one of
\* the seven patterns, every other error (one without message too) being
\* terminal; the two files agree on every error; and a task that met an error
\* with a message before its last attempt backs off exactly when the error
\* is retryable.
C26_Classifier ==
    (PoolHarness /\ traced) =>
        \A i \in Tasks :
            \A k \in 1 .. Len(outcomes[i]) :
                IsError(outcomes[i][k]) =>
                    LET e == outcomes[i][k].error IN
                    /\ (isNonceError(e) \/ isNetworkError(e)) = StatedRetryable(e)
                    /\ (isNonceErrorAB(e) \/ isNetworkErrorAB(e))
                          = (isNonceError(e) \/ isNetworkError(e))
                    /\ (k < MAX_ATTEMPTS /\ ~SplitThrows(e)) =>
                          ((Len(delays[i]) >= k) <=> StatedRetryable(e))

\* A task retried after an error that is retryable by its code alone, and
\* ended by an error without message.
C26_Witness ==
    /\ PoolHarness /\ traced
    /\ \E i \in Tasks :
          /\ Len(outcomes[i]) = 2
          /\ outcomes[i][1].error =
                [code |-> "NONCE_EXPIRED", message |-> <<"bad", "data">>]
          /\ outcomes[i][2].error = [code |-> "undefined", message |-> NoMessage]
          /\ Len(delays[i]) = 1

\* main() has taken the start timestamp of the run (startTime), and the end
\* timestamp (endTime).
StartTaken == mainPc # "prepared"
EndTaken == mainPc \in {"awaitDestroy", "awaitFinal", "done", "summary"}

\* No task of the run has begun to execute.
NoneExecuting ==
    IF harness = "coop"
    THEN taskIndex = 0 /\ \A i \in Tasks : taskState[i] = "unstarted"
    ELSE \A i \in Tasks : wpc[i] = "queued" /\ attempt[i] = 0

\* C27: the start timestamp is taken before the first task is handed over
\* for execution (in the worker-pool mains: given to the pool by piscina.run;
\* in runTasksWithConcurrency: called), and the end timestamp after the last
\* task is terminal.
C27_StartBeforeHandOver ==
    /\ (PoolHarness /\ ~StartTaken) => assigned = <<>>
    /\ ~StartTaken => NoneExecuting
    /\ EndTaken => AllTerminal

\* C28: while a worker task is in its backoff, another task that a thread is
\* executing is not held up: its transaction can be sent, and be confirmed
\* so that the task returns, with the first task still in its backoff.
C28_BackoffDoesNotBlock ==
    (PoolHarness /\ ~crashed) =>
        \A i, j \in Tasks :
            (i # j /\ wpc[i] = "backoff") =>
                /\ wpc[j] = "submitting" =>
                      ENABLED (SubmitOk(j) /\ wpc'[i] = "backoff")
                /\ wpc[j] = "waiting" =>
                      ENABLED (/\ WaitSuccess(j)
                               /\ wpc'[i] = "backoff"
                               /\ wpc'[j] = "returned")

\* One task is in its backoff while the other waits for its confirmation.
C28_Witness ==
    /\ PoolHarness /\ ~crashed
    /\ \E i, j \in Tasks :
          /\ wpc[i] = "backoff"
          /\ wpc[j] = "waiting"

\* The increment transactions of the script that were mined.
MinedIncrements == {i \in Tasks : taskState[i] = "mined"}

\* C29: every mined increment raises Counter.count by exactly 1 and nothing
\* lowers it, so after any interleaving of n mined increments of any senders
\* count = initial count + n; and the script, which gets one receipt for
\* each transaction, expects initialCount + the number of receipts and finds
\* it.
C29_CounterCounts ==
    /\ [](harness = "script" =>
            /\ ledger = initialState + Cardinality(MinedIncrements)
            /\ report.stored =>
                  /\ MinedIncrements = Tasks
                  /\ report.expectedCount = initialState + totalTasks
                  /\ report.finalCount = report.expectedCount
                  /\ report.verified)
    /\ [][harness = "script" =>
            /\ ledger' >= ledger
            /\ ledger' # ledger =>
                  /\ ledger' = ledger + 1
                  /\ Cardinality(MinedIncrements') =
                        Cardinality(MinedIncrements) + 1]_vars

\* The script has verified the count after three increments.
C29_Witness ==
    /\ harness = "script"
    /\ totalTasks = 3
    /\ report.stored
    /\ report.finalCount = 3

\* C30: over all the attempts of one worker task its operation takes effect
\* on the ledger at most once, and it has taken effect exactly when the task
\* returns success; a retry after an error of the confirmation wait does not
\* apply it again. (One task runs: the ledger holds its effects only.)
C30_EffectAtMostOnce ==
    (PoolHarness /\ totalTasks = 1) =>
        /\ ledger \in {initialState, initialState + Effect}
        /\ \A i \in Tasks :
              wpc[i] = "returned" =>
                  (result[i].success <=> ledger = initialState + Effect)

\* The tasks a worker thread is executing, those in their backoff included.
Occupied == {i \in Tasks : wpc[i] \in {"submitting", "waiting", "backoff"}}

\* C31: a worker task in its backoff keeps its thread: it counts among the
\* at most workerCount tasks in flight, a queued task leaves the queue only
\* in a state where fewer than workerCount tasks (those in backoff included)
\* hold a thread, and the task leaves its backoff only by its own next
\* attempt.
C31_BackoffKeepsSlot ==
    /\ [](PoolHarness => Cardinality(Occupied) <= workerCount)
    /\ [][PoolHarness =>
            \A i, j \in Tasks :
                (wpc[i] = "backoff" /\ wpc[j] = "queued") =>
                    /\ wpc'[j] # "queued" =>
                          /\ Cardinality(Occupied) < workerCount
                          /\ wpc'[i] = "backoff"
                    /\ wpc'[i] \in {"backoff", "submitting"}]_vars

\* The only thread is held by a task in its backoff while the next task is
\* queued.
C31_Witness ==
    /\ PoolHarness /\ ~crashed
    /\ workerCount = 1
    /\ \E i, j \in Tasks :
          /\ wpc[i] = "backoff"
          /\ wpc[j] = "queued"

\* The error message of the last attempt of task i, when it ended in an error.
LastAttemptMessage(i) ==
    IF outcomes[i] # <<>> /\ IsError(outcomes[i][Len(outcomes[i])])
    THEN outcomes[i][Len(outcomes[i])].error.message
    ELSE NoMessage

\* C32: with MAX_ATTEMPTS >= 1 a worker task never returns its initial
\* result ('Max attempts reached'): it returns from an attempt (through a
\* break), never from the head of the loop, and a failure it returns holds
\* the error message of its last attempt or the notice of the revert.
C32_DefaultNeverReturned ==
    /\ []((PoolHarness /\ traced /\ MAX_ATTEMPTS >= 1) =>
            \A i \in Tasks :
                wpc[i] = "returned" =>
                    /\ result[i] # DefaultResult(i)
                    /\ attempt[i] = Len(outcomes[i])
                    /\ attempt[i] >= 1
                    /\ ~result[i].success =>
                          \/ result[i].error = LastAttemptMessage(i)
                          \/ /\ result[i] = RevertResult(i)
                             /\ outcomes[i][Len(outcomes[i])].kind = "status0")
    /\ [][(PoolHarness /\ MAX_ATTEMPTS >= 1) =>
            \A i \in Tasks :
                (wpc[i] # "returned" /\ wpc'[i] = "returned") =>
                    wpc[i] \in {"submitting", "waiting"}]_vars

\* A task whose every attempt failed with a retryable error has returned the
\* message of the last one.
C32_Witness ==
    /\ PoolHarness /\ traced
    /\ \E i \in Tasks :
          /\ wpc[i] = "returned"
          /\ attempt[i] = MAX_ATTEMPTS
          /\ \A k \in 1 .. MAX_ATTEMPTS : IsRetryableError(outcomes[i][k])
          /\ result[i].error = outcomes[i][MAX_ATTEMPTS].error.message

\* The counters of the scheduler and the counts of the results are those of a
\* run that has not begun.
FreshRun ==
    /\ NoneExecuting
    /\ ~report.stored
    /\ harness = "coop" =>
          /\ results = <<>>
          /\ errors = 0
          /\ activeCount = 0
          /\ resolveCalls = 0
          /\ \A i \in Tasks : settledAs[i] = "pending"
    /\ PoolHarness =>
          /\ tally = NoTally
          /\ \A i \in Tasks : result[i] = DefaultResult(i) /\ delays[i] = <<>>

\* C33: the runs of the successive levels follow one another and share no
\* state of the harness. Before a run's tasks are started its counters are
\* zero, its contract is freshly deployed and the initial state read from it
\* is the state it has; no task runs before the deployment; and the step to
\* the next level is taken only when the run before is verified and stored
\* and none of its tasks or callbacks is left, and it loses no stored entry.
C33_RunsShareNoState ==
    /\ [](mainPc = "prepared" =>
            /\ FreshRun
            /\ deployed => ledger = initialState)
    /\ [](StartTaken => deployed)
    /\ [][levelsLeft' # levelsLeft =>
            /\ levelsLeft' = levelsLeft - 1
            /\ mainPc = "done"
            /\ report.stored
            /\ benchmarkResults # <<>>
            /\ benchmarkResults[Len(benchmarkResults)] = report
            /\ AllTerminal
            /\ harness = "coop" => \A i \in Tasks : ~InFlight(i)
            /\ benchmarkResults' = benchmarkResults
            /\ mainPc' = "prepared"]_vars

\* The second run is ready to start after a first run in which a task
\* failed.
C33_Witness ==
    /\ harness = "coop"
    /\ mainPc = "prepared"
    /\ Len(benchmarkResults) = 1
    /\ benchmarkResults[1].failedTx = 1
    /\ totalTasks = 1


\* The transaction that the step sends to the contract is a deposit() or a
\* plain transfer of msgValue by msgSender.
Pays(call) == call.fn \in {"deposit", "receive"} /\ call.value > 0

\* C34: a deposit() or a plain transfer (receive) of v > 0 by sender s does
\* not revert and adds exactly v to balances[s] and to the contract's Ether
\* balance, leaving every other account's recorded balance as it was; while
\* no withdrawAll has succeeded the contract's Ether balance is the sum of
\* all recorded balances; deposit() with value 0 reverts and changes
\* nothing.  (Ether reaches the contract through deposit and receive only,
\* and the sums stay below 2^256.)
C34_DepositCreditsSender ==
    /\ [][harness = "account" =>
            LET call == lastCall'
            IN /\ Pays(call) =>
                    /\ ~call.reverted
                    /\ balances'[call.sender] = balances[call.sender] + call.value
                    /\ contractBalance' = contractBalance + call.value
                    /\ \A a \in Addresses \ {call.sender} :
                           balances'[a] = balances[a]
               /\ (call.fn = "deposit" /\ call.value = 0) =>
                    /\ call.reverted
                    /\ UNCHANGED <<balances, owner, contractBalance, withdrawn>>]_vars
    /\ []((harness = "account" /\ ~withdrawn) =>
            getContractBalance = SumOfBalances)

\* Two senders have paid in, the last of them by a plain transfer, and
\* nothing was withdrawn.
C34_Witness ==
    /\ harness = "account"
    /\ ~withdrawn
    /\ lastCall.fn = "receive"
    /\ lastCall.value > 0
    /\ ~lastCall.reverted
    /\ lastCall.sender # owner
    /\ \E a \in Addresses \ {lastCall.sender, owner} : getBalance(a) > 0
    /\ getBalance(lastCall.sender) >= lastCall.value
    /\ getContractBalance = SumOfBalances

\* C35: withdrawAll called by an address other than the owner, or while the
\* contract holds no Ether, reverts and leaves the contract's state as it
\* was; a withdrawAll that succeeds was called by the owner, sets the
\* contract's Ether balance to 0 and leaves every entry of balances as it
\* was; no transaction changes the owner.  (The owner is an externally
\* owned account, as the deployer of the scripts is.)
C35_WithdrawAllOwnerOnly ==
    /\ [][harness = "account" =>
            LET call == lastCall'
            IN call.fn = "withdrawAll" =>
                 /\ (call.sender # owner \/ contractBalance = 0) => call.reverted
                 /\ call.reverted =>
                      UNCHANGED <<balances, owner, contractBalance, withdrawn>>
                 /\ ~call.reverted =>
                      /\ call.sender = owner
                      /\ contractBalance > 0
                      /\ contractBalance' = 0
                      /\ \A a \in Addresses : balances'[a] = balances[a]]_vars
    /\ [][harness = "account" => owner' = owner]_vars

\* The owner has withdrawn what others had deposited: the contract holds
\* nothing and the recorded balances are still there.
C35_Witness ==
    /\ harness = "account"
    /\ lastCall = Call("withdrawAll", owner, 0, FALSE)
    /\ withdrawn
    /\ getContractBalance = 0
    /\ \E a \in Addresses \ {owner} : getBalance(a) > 0
    /\ SumOfBalances > 0

====
